---- MODULE Spec2Model ----
(***************************************************************************)
(* Evaluation pipeline of georgep26/chat-template (evals/):                *)
(*   - BaseRagClient.generate_batch   (evals/client.py)                    *)
(*   - load_rag_results / save_rag_results / run_evaluation                *)
(*                                    (evals/evals_pipeline.py)            *)
(*   - load_eval_dataframe / extract_eval_samples (evals/data.py)          *)
(* Text is a sequence of one-character strings, so that the csv and json   *)
(* conversions of the result cache are computed character by character.    *)
(***************************************************************************)
EXTENDS Integers, Sequences, FiniteSets, TLC

\* ------------------------------------------------------------------------
\* Bounds of the model
\* ------------------------------------------------------------------------
MaxSamples == 2
MaxConcurrency == 2
MaxRuns == 2

\* ------------------------------------------------------------------------
\* Characters and text
\* ------------------------------------------------------------------------
DQ == "\""
BS == "\\"
CR == "\r"
LF == "\n"
COMMA == ","

RECURSIVE FlattenRange(_, _, _)
\* ts[lo] \o ... \o ts[hi], by halving (texts are longer than the depth of
\* recursion a head-and-tail definition could take)
FlattenRange(ts, lo, hi) ==
  IF lo > hi THEN <<>>
  ELSE IF lo = hi THEN ts[lo]
  ELSE LET mid == (lo + hi) \div 2
       IN FlattenRange(ts, lo, mid) \o FlattenRange(ts, mid + 1, hi)

\* "".join(ts)
Flatten(ts) == FlattenRange(ts, 1, Len(ts))

\* sep.join(ts)
Join(ts, sep) == Flatten([i \in 1..Len(ts) |-> IF i = 1 THEN ts[i] ELSE sep \o ts[i]])

\* ------------------------------------------------------------------------
\* Python values that cross the json boundary: str, list, dict, and in the
\* responses of a judge model also int, bool and None
\* ------------------------------------------------------------------------
JStr(s) == [t |-> "str", s |-> s]
JList(items) == [t |-> "list", items |-> items]
JDict(k, v) == [t |-> "dict", k |-> k, v |-> v]
JNum(n) == [t |-> "num", n |-> n]
JBool(b) == [t |-> "bool", b |-> b]
JNull == [t |-> "null"]

\* json.dumps: the escapes of py_encode_basestring_ascii
JsonEscapeChar(c) ==
  IF c = DQ THEN <<BS, DQ>>
  ELSE IF c = BS THEN <<BS, BS>>
  ELSE IF c = LF THEN <<BS, "n">>
  ELSE IF c = CR THEN <<BS, "r">>
  ELSE <<c>>

JsonEscape(s) == Flatten([i \in 1..Len(s) |-> JsonEscapeChar(s[i])])

JsonString(s) == <<DQ>> \o JsonEscape(s) \o <<DQ>>

RECURSIVE JsonDumps(_)
\* json.dumps(v) with the default separators (", " and ": ")
JsonDumps(v) ==
  IF v.t = "str" THEN JsonString(v.s)
  ELSE IF v.t = "list"
  THEN <<"[">> \o Join([i \in 1..Len(v.items) |-> JsonDumps(v.items[i])], <<COMMA, " ">>) \o <<"]">>
  ELSE <<"{">>
       \o Join([i \in 1..Len(v.k) |-> JsonString(v.k[i]) \o <<":", " ">> \o JsonDumps(v.v[i])],
               <<COMMA, " ">>)
       \o <<"}">>

\* json.loads: a recursive-descent decoder over the text t; a parse result
\* is [ok, val, next] with next the index after the value
JFail == [ok |-> FALSE, val |-> JStr(<<>>), next |-> 0]
JOk(v, n) == [ok |-> TRUE, val |-> v, next |-> n]

IsWs(c) == c \in {" ", LF, CR, "\t"}

RECURSIVE SkipWs(_, _)
SkipWs(t, i) == IF i <= Len(t) /\ IsWs(t[i]) THEN SkipWs(t, i + 1) ELSE i

RECURSIVE ScanString(_, _, _)
\* i is the index after the opening quote; acc the characters decoded so far
ScanString(t, i, acc) ==
  IF i > Len(t) THEN JFail
  ELSE IF t[i] = DQ THEN JOk(JStr(acc), i + 1)
  ELSE IF t[i] \in {LF, CR} THEN JFail
  ELSE IF t[i] = BS
  THEN IF i + 1 > Len(t) THEN JFail
       ELSE IF t[i + 1] = DQ THEN ScanString(t, i + 2, Append(acc, DQ))
       ELSE IF t[i + 1] = BS THEN ScanString(t, i + 2, Append(acc, BS))
       ELSE IF t[i + 1] = "n" THEN ScanString(t, i + 2, Append(acc, LF))
       ELSE IF t[i + 1] = "r" THEN ScanString(t, i + 2, Append(acc, CR))
       ELSE JFail
  ELSE ScanString(t, i + 1, Append(acc, t[i]))

\* the text t holds the literal lit at index i
StartsWith(t, i, lit) ==
  /\ i >= 1
  /\ i + Len(lit) - 1 <= Len(t)
  /\ \A k \in 1..Len(lit) : t[i + k - 1] = lit[k]

Digits == <<"0", "1", "2", "3", "4", "5", "6", "7", "8", "9">>
IsDigit(c) == \E d \in 1..Len(Digits) : Digits[d] = c
DigitValue(c) == (CHOOSE d \in 1..Len(Digits) : Digits[d] = c) - 1

RECURSIVE ScanDigits(_, _, _)
\* the digits from index i on, n the value of the digits before them
ScanDigits(t, i, n) ==
  IF i <= Len(t) /\ IsDigit(t[i]) THEN ScanDigits(t, i + 1, 10 * n + DigitValue(t[i]))
  ELSE JOk(JNum(n), i)

\* true, false, null or a number at index i (the texts of the model hold
\* integers only: no fraction, no exponent); the integer part of a number
\* is "0" or a digit string without leading zero
ScanLiteral(t, i) ==
  LET ScanInt(j) == IF t[j] = "0" THEN JOk(JNum(0), j + 1) ELSE ScanDigits(t, j, 0)
      Negated(r) == JOk(JNum(0 - r.val.n), r.next)
  IN IF StartsWith(t, i, <<"t", "r", "u", "e">>) THEN JOk(JBool(TRUE), i + 4)
     ELSE IF StartsWith(t, i, <<"f", "a", "l", "s", "e">>) THEN JOk(JBool(FALSE), i + 5)
     ELSE IF StartsWith(t, i, <<"n", "u", "l", "l">>) THEN JOk(JNull, i + 4)
     ELSE IF IsDigit(t[i]) THEN ScanInt(i)
     ELSE IF t[i] = "-" /\ i + 1 <= Len(t) /\ IsDigit(t[i + 1]) THEN Negated(ScanInt(i + 1))
     ELSE JFail

RECURSIVE ParseValue(_, _)
RECURSIVE ParseItems(_, _, _)
RECURSIVE ParsePairs(_, _, _, _)

\* after the element e of a list, j the index of the next token
AfterItem(t, acc, e, j) ==
  IF ~e.ok \/ j > Len(t) THEN JFail
  ELSE IF t[j] = "]" THEN JOk(JList(Append(acc, e.val)), j + 1)
  ELSE IF t[j] = COMMA THEN ParseItems(t, SkipWs(t, j + 1), Append(acc, e.val))
  ELSE JFail

\* the elements of a list after "[": i is at the next element
AfterElement(t, acc, e) == AfterItem(t, acc, e, SkipWs(t, e.next))
ParseItems(t, i, acc) == AfterElement(t, acc, ParseValue(t, i))

\* the keys ks and values vs with the pair (k, v) stored: a repeated key
\* keeps its place and takes the last value (dict semantics)
DictKeys(ks, k) == IF \E p \in 1..Len(ks) : ks[p] = k THEN ks ELSE Append(ks, k)
DictValues(ks, vs, k, v) ==
  IF \E p \in 1..Len(ks) : ks[p] = k
  THEN [p \in 1..Len(vs) |-> IF ks[p] = k THEN v ELSE vs[p]]
  ELSE Append(vs, v)

\* after the value e of the pair with key k, j the index of the next token
AfterPair(t, ks, vs, k, e, j) ==
  IF ~e.ok \/ j > Len(t) THEN JFail
  ELSE IF t[j] = "}" THEN JOk(JDict(DictKeys(ks, k), DictValues(ks, vs, k, e.val)), j + 1)
  ELSE IF t[j] = COMMA
  THEN ParsePairs(t, SkipWs(t, j + 1), DictKeys(ks, k), DictValues(ks, vs, k, e.val))
  ELSE JFail

AfterPairValue(t, ks, vs, k, e) == AfterPair(t, ks, vs, k, e, SkipWs(t, e.next))

\* after the key of a pair, c the index of the next token
AfterKey(t, ks, vs, key, c) ==
  IF ~key.ok \/ c > Len(t) \/ t[c] # ":" THEN JFail
  ELSE AfterPairValue(t, ks, vs, key.val.s, ParseValue(t, SkipWs(t, c + 1)))

AfterPairKey(t, ks, vs, key) == AfterKey(t, ks, vs, key, SkipWs(t, key.next))

\* the pairs of an object after "{": i is at the next key
ParsePairs(t, i, ks, vs) ==
  IF i > Len(t) \/ t[i] # DQ THEN JFail
  ELSE AfterPairKey(t, ks, vs, ScanString(t, i + 1, <<>>))

\* after "[" (closing = "]") or "{" (closing = "}"), j the index of the next token
ParseOpen(t, j, closing) ==
  IF j <= Len(t) /\ t[j] = closing
  THEN JOk(IF closing = "]" THEN JList(<<>>) ELSE JDict(<<>>, <<>>), j + 1)
  ELSE IF closing = "]" THEN ParseItems(t, j, <<>>)
  ELSE ParsePairs(t, j, <<>>, <<>>)

ParseValue(t, i) ==
  IF i > Len(t) THEN JFail
  ELSE IF t[i] = DQ THEN ScanString(t, i + 1, <<>>)
  ELSE IF t[i] = "[" THEN ParseOpen(t, SkipWs(t, i + 1), "]")
  ELSE IF t[i] = "{" THEN ParseOpen(t, SkipWs(t, i + 1), "}")
  ELSE ScanLiteral(t, i)

\* the whole text must be one value
JsonEnd(t, r) ==
  IF r.ok /\ SkipWs(t, r.next) > Len(t) THEN [ok |-> TRUE, val |-> r.val]
  ELSE [ok |-> FALSE, val |-> JStr(<<>>)]

\* json.loads(t): [ok, val]; ok = FALSE stands for JSONDecodeError
JsonLoads(t) == JsonEnd(t, ParseValue(t, SkipWs(t, 1)))

\* ------------------------------------------------------------------------
\* csv.writer / csv.reader (excel dialect) and the text-mode file layer
\* ------------------------------------------------------------------------
\* QUOTE_MINIMAL: a field is quoted when it holds the delimiter, the quote
\* character or a character of the line terminator "\r\n"
NeedsQuote(f) == \E i \in 1..Len(f) : f[i] \in {COMMA, DQ, CR, LF}

DoubleQuotes(f) == Flatten([i \in 1..Len(f) |-> IF f[i] = DQ THEN <<DQ, DQ>> ELSE <<f[i]>>])

CsvField(f) == IF NeedsQuote(f) THEN <<DQ>> \o DoubleQuotes(f) \o <<DQ>> ELSE f

\* writer.writerow(fields): the fields joined by "," and ended by "\r\n"
CsvRow(fields) ==
  Join([i \in 1..Len(fields) |-> CsvField(fields[i])], <<COMMA>>) \o <<CR, LF>>

\* open(path, "r") without newline="": "\r\n" and "\r" are read as "\n"
UniversalNewlines(t) ==
  Flatten([i \in 1..Len(t) |->
             IF t[i] = CR THEN <<LF>>
             ELSE IF t[i] = LF /\ i > 1 /\ t[i - 1] = CR THEN <<>>
             ELSE <<t[i]>>])

\* the reader's automaton (Reader_iternext / parse_process_char); EOL is the
\* end-of-line event the reader raises after the characters of each line
EOL == "<EOL>"
ReaderStart == [st |-> "START_RECORD", field |-> <<>>, row |-> <<>>, rows |-> <<>>]
SaveField(r) == [r EXCEPT !.row = Append(r.row, r.field), !.field = <<>>]
AddChar(r, c) == [r EXCEPT !.field = Append(r.field, c)]
AfterNewline(c) == IF c = EOL THEN "START_RECORD" ELSE "EAT_CRNL"

\* parse_process_char
ReaderStep(r, c) ==
  IF r.st = "START_RECORD" /\ c = EOL THEN r
  ELSE IF r.st = "START_RECORD" /\ c \in {LF, CR} THEN [r EXCEPT !.st = "EAT_CRNL"]
  ELSE IF r.st \in {"START_RECORD", "START_FIELD"}
  THEN IF c \in {LF, CR, EOL} THEN [SaveField(r) EXCEPT !.st = AfterNewline(c)]
       ELSE IF c = DQ THEN [r EXCEPT !.st = "IN_QUOTED_FIELD"]
       ELSE IF c = COMMA THEN [SaveField(r) EXCEPT !.st = "START_FIELD"]
       ELSE [AddChar(r, c) EXCEPT !.st = "IN_FIELD"]
  ELSE IF r.st = "IN_FIELD"
  THEN IF c \in {LF, CR, EOL} THEN [SaveField(r) EXCEPT !.st = AfterNewline(c)]
       ELSE IF c = COMMA THEN [SaveField(r) EXCEPT !.st = "START_FIELD"]
       ELSE AddChar(r, c)
  ELSE IF r.st = "IN_QUOTED_FIELD"
  THEN IF c = EOL THEN r
       ELSE IF c = DQ THEN [r EXCEPT !.st = "QUOTE_IN_QUOTED_FIELD"]
       ELSE AddChar(r, c)
  ELSE IF r.st = "QUOTE_IN_QUOTED_FIELD"
  THEN IF c = DQ THEN [AddChar(r, c) EXCEPT !.st = "IN_QUOTED_FIELD"]
       ELSE IF c = COMMA THEN [SaveField(r) EXCEPT !.st = "START_FIELD"]
       ELSE IF c \in {LF, CR, EOL} THEN [SaveField(r) EXCEPT !.st = AfterNewline(c)]
       ELSE [AddChar(r, c) EXCEPT !.st = "IN_FIELD"]
  ELSE IF r.st = "EAT_CRNL"
  THEN IF c \in {LF, CR} THEN r
       ELSE IF c = EOL THEN [r EXCEPT !.st = "START_RECORD"]
       ELSE [r EXCEPT !.st = "ERROR"]
  ELSE r

\* Reader_iternext on one event: a record is complete when the end of a
\* line leaves the automaton in START_RECORD
ReaderEvent(r, c) ==
  LET r2 == ReaderStep(r, c)
  IN IF c = EOL /\ r2.st = "START_RECORD"
     THEN [ReaderStart EXCEPT !.rows = Append(r2.rows, r2.row)]
     ELSE r2

RECURSIVE ReaderRun(_, _, _, _)
\* the automaton after the events ev[lo..hi], started in r (by halving)
ReaderRun(ev, lo, hi, r) ==
  IF lo > hi THEN r
  ELSE IF lo = hi THEN ReaderEvent(r, ev[lo])
  ELSE LET mid == (lo + hi) \div 2
           left == ReaderRun(ev, lo, mid, r)
       IN IF left.st = "ERROR" THEN left ELSE ReaderRun(ev, mid + 1, hi, left)

\* the characters of the text t line by line (a line ends at "\n" or at the
\* end of the text), each line followed by EOL
LineEvents(t) ==
  Flatten([i \in 1..Len(t) |-> IF t[i] = LF \/ i = Len(t) THEN <<t[i], EOL>> ELSE <<t[i]>>])

\* list(csv.reader(lines of t)): [ok, rows]; ok = FALSE stands for csv.Error
CsvReader(t) ==
  LET ev == LineEvents(t)
      r == ReaderRun(ev, 1, Len(ev), ReaderStart)
  IN IF r.st = "ERROR" THEN [ok |-> FALSE, rows |-> r.rows]
     ELSE IF Len(r.field) # 0 \/ r.st = "IN_QUOTED_FIELD"
     THEN \* the lines are exhausted inside a record
          [ok |-> TRUE, rows |-> Append(r.rows, SaveField(r).row)]
     ELSE [ok |-> TRUE, rows |-> r.rows]

\* the value DictReader stores for a field name the row is too short for
NoneText == <<"<None>">>

\* row[name] of a DictReader row: [ok, val]; ok = FALSE stands for KeyError
DictGet(header, row, name) ==
  LET pos == {i \in 1..Len(header) : header[i] = name}
      last == CHOOSE i \in pos : \A j \in pos : j <= i
  IN IF pos = {} THEN [ok |-> FALSE, val |-> NoneText]
     ELSE IF last > Len(row) THEN [ok |-> TRUE, val |-> NoneText]
     ELSE [ok |-> TRUE, val |-> row[last]]

\* ------------------------------------------------------------------------
\* The result cache rag_results.csv
\* ------------------------------------------------------------------------
\* a generated output is [answer, contexts, raw]; a mapping of outputs by
\* sample id (a Python dict) is a function whose domain is a set of texts
NoMap == [id \in {} |-> 0]
NoFile == [exists |-> FALSE, text |-> <<>>]

F_sample_id == <<"s", "a", "m", "p", "l", "e", "_", "i", "d">>
F_answer == <<"a", "n", "s", "w", "e", "r">>
F_contexts == <<"c", "o", "n", "t", "e", "x", "t", "s">>
F_raw == <<"r", "a", "w">>
Fieldnames == <<F_sample_id, F_answer, F_contexts, F_raw>>

RECURSIVE SaveRows(_, _)
\* the rows save_rag_results writes: one per sample whose id has a result
SaveRows(samples, results_by_id) ==
  IF samples = <<>> THEN <<>>
  ELSE LET sample == Head(samples)
           output == results_by_id[sample.sample_id]
       IN (IF sample.sample_id \in DOMAIN results_by_id
           THEN CsvRow(<<sample.sample_id, output.answer,
                         JsonDumps(output.contexts), JsonDumps(output.raw)>>)
           ELSE <<>>)
          \o SaveRows(Tail(samples), results_by_id)

RECURSIVE RowsOfIds(_, _)
\* a row for each of the ids
RowsOfIds(ids, results_by_id) ==
  IF ids = {} THEN <<>>
  ELSE LET id == CHOOSE x \in ids : TRUE
       IN CsvRow(<<id, results_by_id[id].answer, JsonDumps(results_by_id[id].contexts),
                   JsonDumps(results_by_id[id].raw)>>)
          \o RowsOfIds(ids \ {id}, results_by_id)

\* a save that writes every entry of results_by_id: the rows of the samples
\* and then the rows of the ids no sample has
SaveRagResultsAllKeys(samples, results_by_id) ==
  [exists |-> TRUE,
   text |-> CsvRow(Fieldnames) \o SaveRows(samples, results_by_id)
            \o RowsOfIds(DOMAIN results_by_id \ {samples[i].sample_id : i \in 1..Len(samples)},
                         results_by_id)]

\* save_rag_results: the file as it is after the call
SaveRagResults(samples, results_by_id) ==
  [exists |-> TRUE, text |-> CsvRow(Fieldnames) \o SaveRows(samples, results_by_id)]

RECURSIVE LoadRows(_, _, _, _)
\* the loop of load_rag_results over the DictReader rows from index i on
LoadRows(header, rows, i, acc) ==
  IF i > Len(rows) THEN [kind |-> "ok", map |-> acc]
  ELSE IF rows[i] = <<>> THEN LoadRows(header, rows, i + 1, acc)
  ELSE LET sample_id == DictGet(header, rows[i], F_sample_id)
           answer == DictGet(header, rows[i], F_answer)
           ctext == DictGet(header, rows[i], F_contexts)
           rtext == DictGet(header, rows[i], F_raw)
           contexts == IF ctext.val \in {<<>>, NoneText}
                       THEN [ok |-> TRUE, val |-> JList(<<>>)] ELSE JsonLoads(ctext.val)
           raw == IF rtext.val \in {<<>>, NoneText}
                  THEN [ok |-> TRUE, val |-> JDict(<<>>, <<>>)] ELSE JsonLoads(rtext.val)
           output == [answer |-> answer.val, contexts |-> contexts.val, raw |-> raw.val]
       IN IF ~sample_id.ok \/ ~answer.ok \/ ~ctext.ok \/ ~rtext.ok THEN [kind |-> "KeyError", map |-> NoMap]
          ELSE IF ~contexts.ok \/ ~raw.ok THEN [kind |-> "JSONDecodeError", map |-> NoMap]
          ELSE LoadRows(header, rows, i + 1,
                        [id \in DOMAIN acc \cup {sample_id.val} |->
                           IF id = sample_id.val THEN output ELSE acc[id]])

\* load_rag_results: kind "none" is the return value None (no file), "ok"
\* a mapping; the other kinds are the exception that leaves the function
LoadRagResults(f) ==
  IF ~f.exists THEN [kind |-> "none", map |-> NoMap]
  ELSE LET r == CsvReader(UniversalNewlines(f.text))
       IN IF ~r.ok THEN [kind |-> "csv.Error", map |-> NoMap]
          ELSE IF r.rows = <<>> THEN [kind |-> "ok", map |-> NoMap]
          ELSE LoadRows(r.rows[1], r.rows, 2, NoMap)

\* ------------------------------------------------------------------------
\* Inputs of a run
\* ------------------------------------------------------------------------
\* sample ids (text, as the id column of the eval csv gives them: one plain
\* id and one that ends in a carriage return); the rows of the eval csv
\* give samples in row order
SampleIds == {<<"p">>, <<"q", CR>>}
IdSeqs == UNION {[1..n -> SampleIds] : n \in 0..MaxSamples}

\* the eval csv has both required columns, or lacks one of them
Columns == {"ok", "no_question", "no_reference"}

\* rag_app of the config: which backend selector is set
RagApps == {"local", "lambda", "none"}

\* metrics.<key> of the config: disabled, enabled with a judge_model, or
\* enabled without one
MetricKeys == <<"ragas", "binary_correctness", "atomic_correctness", "context_relevance">>
MetricConfigs == [{"ragas", "binary_correctness", "atomic_correctness", "context_relevance"}
                    -> {"off", "on", "nojudge"}]

OutputTypes == {"json", "csv", "html"}

\* what the backend answers to the generate call for a sample: the answer
\* names the sample id, so that the outputs of two ids are told from each
\* other; the answer to the first id holds a line break, the answer to the
\* others comes with a context and a nested raw response
GenerateOutput(sample) ==
  IF sample.sample_id = <<"p">>
  THEN [answer |-> <<"a", CR, LF>> \o sample.sample_id,
        contexts |-> JList(<<>>),
        raw |-> JDict(<<>>, <<>>)]
  ELSE [answer |-> <<"a", " ">> \o sample.sample_id,
        contexts |-> JList(<<JStr(<<"c", COMMA, DQ>>)>>),
        raw |-> JDict(<<<<"k">>>>, <<JList(<<JStr(sample.sample_id)>>)>>)]

\* the result slot of a task that has not returned
NoOutput == [answer |-> NoneText, contexts |-> JList(<<>>), raw |-> JDict(<<>>, <<>>)]

\* ------------------------------------------------------------------------
\* State
\* ------------------------------------------------------------------------
VARIABLES
  pc,                   \* the phase run_evaluation is in
  runs,                 \* invocations of run_evaluation so far
  rerun,                \* this run repeats the completed run before it
  prev,                 \* [ok, ids]: the run before completed with persistence
                        \* enabled on the eval csv with the ids ids
  file,                 \* rag_results.csv of the output directory
  file0,                \* rag_results.csv as it was when the run started
  columns,              \* the columns of the eval csv of this run
  samples,              \* samples (extract_eval_samples)
  persist_rag_outputs,  \* run.persist_rag_outputs as read at line 159
  persisted_results,    \* [some, map]: None or the dict by sample id
  loaded,               \* [some, ids]: what load_rag_results returned
  missing_samples,      \* samples to generate
  rag_app,              \* config rag_app once read, "unread" before
  client_built,         \* build_rag_client returned a client
  max_concurrency,      \* generate_batch's argument
  sem,                  \* permits left in the semaphore
  tasks,                \* state of the task of each missing sample
  taskResult,           \* what each task's generate call returned
  doneOrder,            \* the tasks in the order their calls returned
  gatherExc,            \* gather's future holds an exception
  new_model_outputs,    \* the value generate_batch returned
  model_outputs,        \* outputs in the order of samples
  metrics,              \* metrics still to evaluate
  per_sample_results,   \* scored records so far
  judgeCalled,          \* a judge-model call was issued in this run
  summary,              \* [metrics, mode]
  written,              \* output artifacts this run wrote
  uploaded,             \* the output directory was uploaded
  error,                \* the exception that ended the run, "" if none
  genCalls,             \* per sample: generate calls started in this run
  metric_name,          \* self.name of the metric whose evaluate is running
  grade,                \* per sample: the _grade_one task of evaluate
  records,              \* what evaluate returned
  scores,               \* aggregate_metric's argument in the running call
  rng,                  \* [seed, pos]: the generator of the running call
  stream,               \* what generators have drawn: [seed, pos, size, idx]
  boot_means,           \* the resample means of the running call
  aggregated,           \* [scores, stats] of the calls that returned
  csv,                  \* [some, rows]: evaluation_results.csv
  results_dir,          \* the summaries collect_local_results finds
  all_summaries,        \* the summaries of the running aggregation
  table,                \* what save_evaluation_csv returned
  metric_data,          \* per metric: the points extract_metric_data returned
  ordered_runs,         \* the run ids extract_metric_data returned
  metric_tables,        \* the rows of the table create_metric_table returned
  aggregations,         \* calls of aggregate_local_results so far
  max_runs,             \* fetch_github_actions_artifacts' argument
  workflow_runs,        \* the successful workflow runs it checks
  runs_processed,       \* its counter of runs looked at
  artifact_count,       \* its counter of artifacts downloaded
  temp_dir,             \* the run directories under its temporary directory
  results_csv,          \* the rows write_csv_results wrote
  client_calls          \* the generate calls made: [backend, resp, out]

vars == <<pc, runs, rerun, prev, file, file0, columns, samples, persist_rag_outputs,
          persisted_results, loaded, missing_samples, rag_app, client_built,
          max_concurrency, sem, tasks, taskResult, doneOrder, gatherExc,
          new_model_outputs, model_outputs, metrics, per_sample_results,
          judgeCalled, summary, written, uploaded, error, genCalls,
          metric_name, grade, records, scores, rng, stream, boot_means,
          aggregated, csv, results_dir, all_summaries, table, metric_data,
          ordered_runs, metric_tables, aggregations, max_runs, workflow_runs,
          runs_processed, artifact_count, temp_dir, results_csv, client_calls>>

genVars == <<max_concurrency, sem, tasks, taskResult, doneOrder, gatherExc>>
dataVars == <<columns, samples, genCalls>>
cacheVars == <<persist_rag_outputs, persisted_results, loaded, missing_samples>>
metricVars == <<metrics, per_sample_results, judgeCalled>>
outVars == <<summary, written, uploaded>>
judgeVars == <<metric_name, grade, records>>
\* the variables of the components run_evaluation uses through a call
statsVars == <<scores, rng, stream, boot_means, aggregated>>
aggVars == <<csv, results_dir, all_summaries, table, metric_data, ordered_runs,
             metric_tables, aggregations>>
fetchVars == <<max_runs, workflow_runs, runs_processed, artifact_count, temp_dir>>
toolVars == <<fetchVars, results_csv, client_calls>>
extVars == <<judgeVars, statsVars, aggVars, toolVars>>

NoResults == [some |-> FALSE, map |-> NoMap]
NoSummary == [metrics |-> {}, mode |-> ""]

\* ------------------------------------------------------------------------
\* The functions run_evaluation calls
\* ------------------------------------------------------------------------
\* load_eval_dataframe with the loop over the required columns cut to the
\* question column
LoadEvalDataframeQuestionOnly(cols) ==
  IF cols = "no_question" THEN "ValueError: Missing column" ELSE "ok"

\* load_eval_dataframe: "ok", or the exception it raises
LoadEvalDataframe(cols) == IF cols = "ok" THEN "ok" ELSE "ValueError: Missing column"

\* extract_eval_samples over the rows with the ids ids: row[q_col] and
\* row[ref_col] raise KeyError on a frame without the column
ExtractEvalSamples(cols, ids) ==
  IF cols # "ok" /\ ids # <<>> THEN [err |-> "KeyError", samples |-> <<>>]
  ELSE [err |-> "", samples |-> [i \in 1..Len(ids) |-> [idx |-> i, sample_id |-> ids[i]]]]

\* step 3 with the lookup in persisted_results left out
MissingSamplesAll(ss, persisted) == ss

\* step 3 of run_evaluation: the samples without a persisted result
MissingSamples(ss, persisted) ==
  IF persisted.some
  THEN LET Absent(sample) == sample.sample_id \notin DOMAIN persisted.map
       IN SelectSeq(ss, Absent)
  ELSE ss

\* build_rag_client: "" or the exception it raises
BuildRagClient(ra) == IF ra \in {"local", "lambda"} THEN "" ELSE "ValueError: rag_app"

\* _wrapped without "async with sem"
CanAcquireNoPermit(permits, ts, i) == TRUE

\* async with sem: the permit is taken when one is left; waiters are woken
\* in the order they arrived, which is the order gather created the tasks
CanAcquire(permits, ts, i) ==
  /\ permits > 0
  /\ \A j \in 1..(i - 1) : ts[j] # "pending"

\* a wait that returns with the first awaitable that has returned
GatherAnyDone(ts) == \E i \in 1..Len(ts) : ts[i] = "done"

\* asyncio.gather is done when every awaitable has returned
GatherDone(ts) == \A i \in 1..Len(ts) : ts[i] = "done"

\* the results collected in the order the awaitables returned
GatherAsCompleted(results, order) == [i \in 1..Len(order) |-> results[order[i]]]

\* asyncio.gather's result: the awaitables' results in argument order
Gather(results, order) == [i \in 1..Len(results) |-> results[i]]

RECURSIVE MergeResults(_, _, _, _)
\* the loop over zip(missing_samples, new_model_outputs) from index i on
MergeResults(map, missing, outs, i) ==
  IF i > Len(missing) \/ i > Len(outs) THEN map
  ELSE MergeResults([id \in DOMAIN map \cup {missing[i].sample_id} |->
                       IF id = missing[i].sample_id THEN outs[i] ELSE map[id]],
                    missing, outs, i + 1)

\* step 4 looping over the set of sample ids instead of the samples: one
\* output per distinct id
BuildModelOutputsPerId(ss, persisted) ==
  [err |-> "",
   outs |-> [i \in 1..Cardinality({ss[j].sample_id : j \in 1..Len(ss)}) |->
               persisted.map[ss[i].sample_id]]]

\* step 4 of run_evaluation: [err, outs]
BuildModelOutputs(ss, persisted) ==
  IF \E i \in 1..Len(ss) :
       ~(persisted.some /\ DOMAIN persisted.map # {} /\ ss[i].sample_id \in DOMAIN persisted.map)
  THEN [err |-> "RuntimeError: Missing RAG result", outs |-> <<>>]
  ELSE [err |-> "", outs |-> [i \in 1..Len(ss) |-> persisted.map[ss[i].sample_id]]]

\* build_metrics: [err, metrics]; the metric names in the order they are
\* appended (context_relevance creates its llm and appends nothing)
BuildMetrics(mcfg) ==
  IF \E k \in DOMAIN mcfg : mcfg[k] = "nojudge"
  THEN [err |-> "ValueError: judge_model", metrics |-> <<>>]
  ELSE [err |-> "",
        metrics |-> (IF mcfg["ragas"] = "on" THEN <<"ragas_collection">> ELSE <<>>)
                    \o (IF mcfg["binary_correctness"] = "on" THEN <<"correctness_binary">> ELSE <<>>)
                    \o (IF mcfg["atomic_correctness"] = "on" THEN <<"correctness_atomic">> ELSE <<>>)]

\* the mode of the run metadata
Mode(ra) == IF ra = "local" THEN "local" ELSE IF ra = "lambda" THEN "lambda" ELSE "unknown"

\* tasks holding a permit, their generate call in flight
InFlight == {i \in 1..Len(tasks) : tasks[i] = "running"}

\* ------------------------------------------------------------------------
\* Initial state and the steps of run_evaluation
\* ------------------------------------------------------------------------
NoLoaded == [some |-> FALSE, ids |-> {}]
NoPrev == [ok |-> FALSE, ids |-> <<>>]

\* the local variables of run_evaluation before its first statement
LocalsReset ==
  /\ columns' = "ok"
  /\ samples' = <<>>
  /\ genCalls' = <<>>
  /\ persist_rag_outputs' = FALSE
  /\ persisted_results' = NoResults
  /\ loaded' = NoLoaded
  /\ missing_samples' = <<>>
  /\ rag_app' = "unread"
  /\ client_built' = FALSE
  /\ max_concurrency' = 0
  /\ sem' = 0
  /\ tasks' = <<>>
  /\ taskResult' = <<>>
  /\ doneOrder' = <<>>
  /\ gatherExc' = FALSE
  /\ new_model_outputs' = <<>>
  /\ model_outputs' = <<>>
  /\ metrics' = <<>>
  /\ per_sample_results' = <<>>
  /\ judgeCalled' = FALSE
  /\ summary' = NoSummary

\* no evaluate call of a judge metric is running
JudgeIdle ==
  /\ metric_name = ""
  /\ grade = <<>>
  /\ records = <<>>

\* no aggregate_metric call is running and none has returned
StatsIdle ==
  /\ scores = <<>>
  /\ rng = [seed |-> 0, pos |-> 0]
  /\ stream = {}
  /\ boot_means = <<>>
  /\ aggregated = <<>>

\* no aggregation has run: there is no evaluation_results.csv
AggIdle ==
  /\ csv = [some |-> FALSE, rows |-> <<>>]
  /\ results_dir = <<>>
  /\ all_summaries = <<>>
  /\ table = <<>>
  /\ metric_data = <<>>
  /\ ordered_runs = <<>>
  /\ metric_tables = <<>>
  /\ aggregations = 0

ToolIdle ==
  /\ max_runs = 0
  /\ workflow_runs = <<>>
  /\ runs_processed = 0
  /\ artifact_count = 0
  /\ temp_dir = {}
  /\ results_csv = <<>>
  /\ client_calls = <<>>

Init ==
  /\ pc = "Idle"
  /\ runs = 0
  /\ rerun = FALSE
  /\ prev = NoPrev
  /\ file = NoFile
  /\ file0 = NoFile
  /\ columns = "ok"
  /\ samples = <<>>
  /\ persist_rag_outputs = FALSE
  /\ persisted_results = NoResults
  /\ loaded = NoLoaded
  /\ missing_samples = <<>>
  /\ rag_app = "unread"
  /\ client_built = FALSE
  /\ max_concurrency = 0
  /\ sem = 0
  /\ tasks = <<>>
  /\ taskResult = <<>>
  /\ doneOrder = <<>>
  /\ gatherExc = FALSE
  /\ new_model_outputs = <<>>
  /\ model_outputs = <<>>
  /\ metrics = <<>>
  /\ per_sample_results = <<>>
  /\ judgeCalled = FALSE
  /\ summary = NoSummary
  /\ written = {}
  /\ uploaded = FALSE
  /\ error = ""
  /\ genCalls = <<>>
  /\ JudgeIdle
  /\ StatsIdle
  /\ AggIdle
  /\ ToolIdle

\* the exception exc leaves run_evaluation
Fail(exc) == pc' = "Failed" /\ error' = exc /\ prev' = NoPrev

\* main() calls run_evaluation; again = TRUE when the caller repeats the
\* completed persistence-enabled run before it on the same eval csv
StartRun ==
  /\ pc \in {"Idle", "Done", "Failed"}
  /\ runs < MaxRuns
  /\ \E again \in BOOLEAN :
       /\ again => (pc = "Done" /\ prev.ok)
       /\ rerun' = again
  /\ runs' = runs + 1
  /\ pc' = "LoadData"
  /\ file0' = file
  /\ LocalsReset
  /\ written' = {}
  /\ uploaded' = FALSE
  /\ error' = ""
  /\ UNCHANGED <<extVars, file, prev>>

\* 1) load_eval_dataframe, extract_eval_samples
LoadData ==
  /\ pc = "LoadData"
  /\ \E cols \in Columns, ids \in IdSeqs :
       /\ rerun => (cols = "ok" /\ ids = prev.ids)
       /\ columns' = cols
       /\ LET df == LoadEvalDataframe(cols)
              ex == ExtractEvalSamples(cols, ids)
          IN IF df # "ok" THEN Fail(df) /\ UNCHANGED <<samples, genCalls>>
             ELSE IF ex.err # "" THEN Fail(ex.err) /\ UNCHANGED <<samples, genCalls>>
             ELSE /\ samples' = ex.samples
                  /\ genCalls' = [i \in 1..Len(ids) |-> 0]
                  /\ pc' = "ResolveCache"
                  /\ UNCHANGED <<error, prev>>
  /\ UNCHANGED <<extVars, runs, rerun, file, file0, cacheVars, rag_app, client_built, genVars,
                 new_model_outputs, model_outputs, metricVars, outVars>>

\* 2) load_rag_results when persistence is enabled, 3) the missing samples
ResolveCache ==
  /\ pc = "ResolveCache"
  /\ \E p \in BOOLEAN :
       /\ rerun => p
       /\ persist_rag_outputs' = p
       /\ LET res == IF p THEN LoadRagResults(file) ELSE [kind |-> "none", map |-> NoMap]
              persisted == [some |-> res.kind = "ok", map |-> res.map]
              missing == MissingSamples(samples, persisted)
          IN IF res.kind \notin {"none", "ok"}
             THEN Fail(res.kind) /\ UNCHANGED <<persisted_results, loaded, missing_samples>>
             ELSE /\ persisted_results' = persisted
                  /\ loaded' = [some |-> persisted.some, ids |-> DOMAIN persisted.map]
                  /\ missing_samples' = missing
                  /\ pc' = IF missing # <<>> THEN "BuildClient" ELSE "BuildOutputs"
                  /\ UNCHANGED <<error, prev>>
  /\ UNCHANGED <<extVars, runs, rerun, file, file0, dataVars, rag_app, client_built, genVars,
                 new_model_outputs, model_outputs, metricVars, outVars>>

\* build_rag_client, then generate_batch up to its await of gather: the
\* semaphore is made and one task per missing sample is created
BuildClient ==
  /\ pc = "BuildClient"
  /\ \E ra \in RagApps, mc \in 0..MaxConcurrency :
       /\ rag_app' = ra
       /\ IF BuildRagClient(ra) # ""
          THEN Fail(BuildRagClient(ra)) /\ UNCHANGED <<client_built, genVars>>
          ELSE /\ client_built' = TRUE
               /\ max_concurrency' = mc
               /\ sem' = mc
               /\ tasks' = [i \in 1..Len(missing_samples) |-> "pending"]
               /\ taskResult' = [i \in 1..Len(missing_samples) |-> NoOutput]
               /\ doneOrder' = <<>>
               /\ gatherExc' = FALSE
               /\ pc' = "Generate"
               /\ UNCHANGED <<error, prev>>
  /\ UNCHANGED <<extVars, runs, rerun, file, file0, dataVars, cacheVars,
                 new_model_outputs, model_outputs, metricVars, outVars>>

\* _wrapped(s) enters "async with sem" and calls self.generate(s)
Acquire(i) ==
  /\ pc = "Generate"
  /\ tasks[i] = "pending"
  /\ CanAcquire(sem, tasks, i)
  /\ tasks' = [tasks EXCEPT ![i] = "running"]
  /\ sem' = sem - 1
  /\ genCalls' = [genCalls EXCEPT ![missing_samples[i].idx] = @ + 1]
  /\ UNCHANGED <<extVars, pc, runs, rerun, prev, file, file0, columns, samples, cacheVars, rag_app,
                 client_built, max_concurrency, taskResult, doneOrder, gatherExc,
                 new_model_outputs, model_outputs, metricVars, outVars, error>>

\* the generate call of task i returns; the permit is released
Finish(i) ==
  /\ pc = "Generate"
  /\ tasks[i] = "running"
  /\ tasks' = [tasks EXCEPT ![i] = "done"]
  /\ taskResult' = [taskResult EXCEPT ![i] = GenerateOutput(missing_samples[i])]
  /\ doneOrder' = Append(doneOrder, i)
  /\ sem' = sem + 1
  /\ UNCHANGED <<extVars, pc, runs, rerun, prev, file, file0, dataVars, cacheVars, rag_app,
                 client_built, max_concurrency, gatherExc,
                 new_model_outputs, model_outputs, metricVars, outVars, error>>

\* the generate call of task i raises and the permit stays taken
RaiseKeepsPermit(i) ==
  /\ pc = "Generate"
  /\ tasks[i] = "running"
  /\ tasks' = [tasks EXCEPT ![i] = "raised"]
  /\ gatherExc' = TRUE
  /\ UNCHANGED <<extVars, pc, runs, rerun, prev, file, file0, dataVars, cacheVars, rag_app,
                 client_built, max_concurrency, sem, taskResult, doneOrder,
                 new_model_outputs, model_outputs, metricVars, outVars, error>>

\* the generate call of task i raises; the permit is released and gather's
\* future takes the exception
Raise(i) ==
  /\ pc = "Generate"
  /\ tasks[i] = "running"
  /\ tasks' = [tasks EXCEPT ![i] = "raised"]
  /\ sem' = sem + 1
  /\ gatherExc' = TRUE
  /\ UNCHANGED <<extVars, pc, runs, rerun, prev, file, file0, dataVars, cacheVars, rag_app,
                 client_built, max_concurrency, taskResult, doneOrder,
                 new_model_outputs, model_outputs, metricVars, outVars, error>>

\* the await of gather raises in run_evaluation; nothing catches it, and
\* asyncio.run cancels the tasks that are left and closes the loop:
\* generate_batch's semaphore and tasks are gone
AbortRun ==
  /\ pc = "Generate"
  /\ gatherExc
  /\ Fail("GenerationError")
  /\ max_concurrency' = 0
  /\ sem' = 0
  /\ tasks' = <<>>
  /\ taskResult' = <<>>
  /\ UNCHANGED <<extVars, runs, rerun, file, file0, dataVars, cacheVars, rag_app,
                 client_built, doneOrder, gatherExc,
                 new_model_outputs, model_outputs, metricVars, outVars>>

\* gather(..., return_exceptions=True): the await returns once every task
\* has ended, an exception in the place of a result
GatherReturnExceptions ==
  /\ pc = "Generate"
  /\ \A i \in 1..Len(tasks) : tasks[i] \in {"done", "raised"}
  /\ new_model_outputs' = taskResult
  /\ pc' = "Merge"
  /\ UNCHANGED <<extVars, runs, rerun, prev, file, file0, dataVars, cacheVars, rag_app,
                 client_built, genVars, model_outputs, metricVars, outVars, error>>

\* the await of gather returns the list of outputs
GatherReturn ==
  /\ pc = "Generate"
  /\ ~gatherExc
  /\ GatherDone(tasks)
  /\ new_model_outputs' = Gather(taskResult, doneOrder)
  /\ pc' = "Merge"
  /\ UNCHANGED <<extVars, runs, rerun, prev, file, file0, dataVars, cacheVars, rag_app,
                 client_built, genVars, model_outputs, metricVars, outVars, error>>

\* the new outputs are merged into persisted_results (lines 187-193);
\* generate_batch's semaphore and tasks are gone, and new_model_outputs is
\* not read again
Merge ==
  /\ pc = "Merge"
  /\ persisted_results' =
       [some |-> TRUE,
        map |-> MergeResults(persisted_results.map, missing_samples, new_model_outputs, 1)]
  /\ pc' = "PersistCache"
  /\ max_concurrency' = 0
  /\ sem' = 0
  /\ tasks' = <<>>
  /\ taskResult' = <<>>
  /\ doneOrder' = <<>>
  /\ new_model_outputs' = <<>>
  /\ UNCHANGED <<extVars, runs, rerun, prev, file, file0, dataVars, persist_rag_outputs, loaded,
                 missing_samples, rag_app, client_built, gatherExc,
                 model_outputs, metricVars, outVars, error>>

\* save_rag_results when persistence is enabled (lines 195-197)
PersistCache ==
  /\ pc = "PersistCache"
  /\ file' = IF persist_rag_outputs THEN SaveRagResults(samples, persisted_results.map)
             ELSE file
  /\ pc' = "BuildOutputs"
  /\ UNCHANGED <<extVars, runs, rerun, prev, file0, dataVars, cacheVars, rag_app, client_built,
                 genVars, new_model_outputs, model_outputs, metricVars, outVars, error>>

\* 4) model_outputs in the order of samples
BuildOutputs ==
  /\ pc = "BuildOutputs"
  /\ LET r == BuildModelOutputs(samples, persisted_results)
     IN IF r.err # "" THEN Fail(r.err) /\ UNCHANGED model_outputs
        ELSE model_outputs' = r.outs /\ pc' = "BuildMetrics" /\ UNCHANGED <<error, prev>>
  /\ UNCHANGED <<extVars, runs, rerun, file, file0, dataVars, cacheVars, rag_app, client_built,
                 genVars, new_model_outputs, metricVars, outVars>>

\* 5) build_metrics
BuildMetricsStep ==
  /\ pc = "BuildMetrics"
  /\ \E mcfg \in MetricConfigs :
       LET r == BuildMetrics(mcfg)
       IN IF r.err # "" THEN Fail(r.err) /\ UNCHANGED metrics
          ELSE /\ metrics' = r.metrics
               /\ pc' = IF r.metrics = <<>> THEN "Aggregate" ELSE "RunMetrics"
               /\ UNCHANGED <<error, prev>>
  /\ UNCHANGED <<extVars, runs, rerun, file, file0, dataVars, cacheVars, rag_app, client_built,
                 genVars, new_model_outputs, model_outputs, per_sample_results,
                 judgeCalled, outVars>>

\* 6) await metric.evaluate(samples, model_outputs) of the next metric:
\* one record per sample, after one or more judge calls per sample
EvaluateMetric ==
  /\ pc = "RunMetrics"
  /\ metrics # <<>>
  /\ per_sample_results' = per_sample_results \o
       [i \in 1..Len(samples) |-> [id |-> samples[i].sample_id, metric |-> Head(metrics)]]
  /\ judgeCalled' = (judgeCalled \/ samples # <<>>)
  /\ metrics' = Tail(metrics)
  /\ pc' = IF Tail(metrics) = <<>> THEN "Aggregate" ELSE "RunMetrics"
  /\ UNCHANGED <<extVars, runs, rerun, prev, file, file0, dataVars, cacheVars, rag_app, client_built,
                 genVars, new_model_outputs, model_outputs, outVars, error>>

\* a judge call of the metric raises (the provider fails); run_evaluation
\* does not catch it
MetricRaises ==
  /\ pc = "RunMetrics"
  /\ metrics # <<>>
  /\ samples # <<>>
  /\ judgeCalled' = TRUE
  /\ Fail("MetricError")
  /\ UNCHANGED <<extVars, runs, rerun, file, file0, dataVars, cacheVars, rag_app, client_built,
                 genVars, new_model_outputs, model_outputs, metrics, per_sample_results,
                 outVars>>

\* 7) build_aggregate_summary: one entry per metric with a record
Aggregate ==
  /\ pc = "Aggregate"
  /\ summary' = [summary EXCEPT !.metrics =
                   {per_sample_results[i].metric : i \in 1..Len(per_sample_results)}]
  /\ pc' = "AttachRunMetadata"
  /\ UNCHANGED <<extVars, runs, rerun, prev, file, file0, dataVars, cacheVars, rag_app, client_built,
                 genVars, new_model_outputs, model_outputs, metricVars,
                 written, uploaded, error>>

\* the run block of the summary (lines 221-240)
AttachRunMetadata ==
  /\ pc = "AttachRunMetadata"
  /\ \E ra \in RagApps :
       /\ rag_app # "unread" => ra = rag_app
       /\ rag_app' = ra
       /\ summary' = [summary EXCEPT !.mode = Mode(ra)]
  /\ pc' = "Write"
  /\ UNCHANGED <<extVars, runs, rerun, prev, file, file0, dataVars, cacheVars, client_built,
                 genVars, new_model_outputs, model_outputs, metricVars,
                 written, uploaded, error>>

\* 8) the outputs of outputs.types, 9) the optional upload; run_evaluation
\* returns and its local variables are gone
Write ==
  /\ pc = "Write"
  /\ \E types \in SUBSET OutputTypes, s3 \in BOOLEAN :
       /\ written' = types
       /\ uploaded' = s3
  /\ pc' = "Done"
  /\ prev' = IF persist_rag_outputs
             THEN [ok |-> TRUE, ids |-> [i \in 1..Len(samples) |-> samples[i].sample_id]]
             ELSE NoPrev
  /\ LocalsReset
  /\ UNCHANGED <<extVars, runs, rerun, file, file0, error>>

Next ==
  \/ StartRun
  \/ LoadData
  \/ ResolveCache
  \/ BuildClient
  \/ \E i \in 1..Len(tasks) : Acquire(i)
  \/ \E i \in 1..Len(tasks) : Finish(i)
  \/ \E i \in 1..Len(tasks) : Raise(i)
  \/ AbortRun
  \/ GatherReturn
  \/ Merge
  \/ PersistCache
  \/ BuildOutputs
  \/ BuildMetricsStep
  \/ EvaluateMetric
  \/ MetricRaises
  \/ Aggregate
  \/ AttachRunMetadata
  \/ Write

Spec == Init /\ [][Next]_vars

\* ------------------------------------------------------------------------
\* The result cache on its own: save_rag_results, then load_rag_results
\* ------------------------------------------------------------------------
\* outputs a backend can return: plain text, text with the csv delimiter
\* and quote, with line breaks of both kinds, nested contexts and raw
CacheOutputs ==
  { [answer |-> <<"a">>, contexts |-> JList(<<>>), raw |-> JDict(<<>>, <<>>)],
    [answer |-> <<"a", COMMA, DQ, "b">>,
     contexts |-> JList(<<JStr(<<"c">>), JStr(<<"d", COMMA, DQ>>)>>),
     raw |-> JDict(<<<<"k">>>>, <<JList(<<JStr(<<"v">>), JDict(<<<<"n">>>>, <<JStr(<<"w">>)>>)>>)>>)],
    [answer |-> <<"a", LF, "b">>,
     contexts |-> JList(<<JList(<<JStr(<<"n", LF>>)>>)>>),
     raw |-> JDict(<<<<"k">>, <<"l">>>>, <<JDict(<<<<"n">>>>, <<JStr(<<CR, LF>>)>>), JStr(<<BS>>)>>)],
    [answer |-> <<"a", CR, LF, "b">>, contexts |-> JList(<<>>), raw |-> JDict(<<>>, <<>>)],
    [answer |-> <<>>, contexts |-> JList(<<JStr(<<CR>>)>>), raw |-> JDict(<<>>, <<>>)] }

\* the output directory holds no cache; samples are the samples of an eval
\* csv, model_outputs one output per sample as generate_batch returns them
\* and persisted_results those outputs by sample id
CacheInit ==
  /\ pc = "CacheSave"
  /\ \E ids \in IdSeqs :
       /\ samples = ExtractEvalSamples("ok", ids).samples
       /\ \E outs \in [1..Len(ids) -> CacheOutputs] :
            /\ model_outputs = outs
            /\ persisted_results = [some |-> TRUE, map |-> MergeResults(NoMap, samples, outs, 1)]
  /\ runs = 0
  /\ rerun = FALSE
  /\ prev = NoPrev
  /\ file = NoFile
  /\ file0 = NoFile
  /\ columns = "ok"
  /\ persist_rag_outputs = TRUE
  /\ loaded = NoLoaded
  /\ missing_samples = <<>>
  /\ rag_app = "unread"
  /\ client_built = FALSE
  /\ max_concurrency = 0
  /\ sem = 0
  /\ tasks = <<>>
  /\ taskResult = <<>>
  /\ doneOrder = <<>>
  /\ gatherExc = FALSE
  /\ new_model_outputs = <<>>
  /\ metrics = <<>>
  /\ per_sample_results = <<>>
  /\ judgeCalled = FALSE
  /\ summary = NoSummary
  /\ written = {}
  /\ uploaded = FALSE
  /\ error = ""
  /\ genCalls = <<>>
  /\ JudgeIdle
  /\ StatsIdle
  /\ AggIdle
  /\ ToolIdle

\* save_rag_results(samples, persisted_results, output_dir)
CacheSave ==
  /\ pc = "CacheSave"
  /\ file' = SaveRagResults(samples, persisted_results.map)
  /\ pc' = "CacheLoad"
  /\ UNCHANGED <<extVars, runs, rerun, prev, file0, dataVars, cacheVars, rag_app, client_built,
                 genVars, new_model_outputs, model_outputs, metricVars, outVars, error>>

\* persisted_results = load_rag_results(samples, output_dir)
CacheLoad ==
  /\ pc = "CacheLoad"
  /\ \E res \in {LoadRagResults(file)} :
       /\ persisted_results' = [some |-> res.kind = "ok", map |-> res.map]
       /\ loaded' = [some |-> res.kind = "ok", ids |-> DOMAIN res.map]
       /\ error' = IF res.kind \in {"none", "ok"} THEN "" ELSE res.kind
  /\ pc' = "CacheLoaded"
  /\ UNCHANGED <<extVars, runs, rerun, prev, file, file0, dataVars, persist_rag_outputs,
                 missing_samples, rag_app, client_built, genVars, new_model_outputs,
                 model_outputs, metricVars, outVars>>

CacheNext ==
  \/ CacheSave
  \/ CacheLoad

SpecCache == CacheInit /\ [][CacheNext]_vars

\* ------------------------------------------------------------------------
\* metrics_custom: the text of a judge response
\* ------------------------------------------------------------------------
RECURSIVE SkipSpace(_, _)
\* the index after the run of \s* that starts at index i (\s: the space
\* characters of the texts)
SkipSpace(t, i) ==
  IF i <= Len(t) /\ t[i] \in {" ", "\t", LF, CR} THEN SkipSpace(t, i + 1) ELSE i

Least(S) == CHOOSE x \in S : \A y \in S : x <= y
Greatest(S) == CHOOSE x \in S : \A y \in S : x >= y

\* the backquote, for which the texts of the model hold the character "^"
TICK == "^"

\* the text returned as it is: neither pattern is tried
ExtractJsonAsIs(text) == text

\* extract_json_from_text. json_block_pattern with its opening fence at
\* index p: FenceOpen is the index after the fence, the optional "json" and
\* the whitespace, where "{" must stand; ".*?" stops at the first "}" that
\* whitespace and the closing fence follow. json_object_pattern: from the
\* first "{" to the last "}" after it (".*" is greedy, and with DOTALL both
\* cross line breaks)
ExtractJsonFromText(text) ==
  LET FENCE == <<TICK, TICK, TICK>>
      FenceOpen(p) ==
        SkipSpace(text, IF StartsWith(text, p + 3, <<"j", "s", "o", "n">>) THEN p + 7 ELSE p + 3)
      FenceCloses(r) == text[r] = "}" /\ StartsWith(text, SkipSpace(text, r + 1), FENCE)
      FencedAt(p) ==
        /\ StartsWith(text, p, FENCE)
        /\ FenceOpen(p) <= Len(text)
        /\ text[FenceOpen(p)] = "{"
        /\ \E r \in (FenceOpen(p) + 1)..Len(text) : FenceCloses(r)
      JsonBlock(p) ==
        SubSeq(text, FenceOpen(p), Least({r \in (FenceOpen(p) + 1)..Len(text) : FenceCloses(r)}))
      open == {i \in 1..Len(text) : text[i] = "{"}
      close == {i \in 1..Len(text) : text[i] = "}"}
  IN IF \E p \in 1..Len(text) : FencedAt(p)
     THEN JsonBlock(Least({p \in 1..Len(text) : FencedAt(p)}))
     ELSE IF open # {} /\ \E c \in close : c > Least(open)
     THEN SubSeq(text, Least(open), Greatest(close))
     ELSE text

\* keys of the object the grading prompt asks for
K_score == <<"s", "c", "o", "r", "e">>
K_explanation == <<"e", "x", "p", "l", "a", "n", "a", "t", "i", "o", "n">>

\* d.get(key, default)
Get(d, key, default) ==
  IF \E k \in 1..Len(d.k) : d.k[k] = key
  THEN d.v[CHOOSE k \in 1..Len(d.k) : d.k[k] = key]
  ELSE default

\* extract_text_content: a str as it is, a list of content blocks as the
\* texts of its blocks joined, None as str(None)
ExtractTextContent(content) ==
  LET K_text == <<"t", "e", "x", "t">>
      BlockText(block) ==
        IF block.t = "dict" /\ \E k \in 1..Len(block.k) : block.k[k] = K_text
        THEN Get(block, K_text, JStr(<<>>)).s
        ELSE <<>>
  IN IF content.t = "str" THEN content.s
     ELSE IF content.t = "list"
     THEN Flatten([i \in 1..Len(content.items) |-> BlockText(content.items[i])])
     ELSE <<"N", "o", "n", "e">>

\* json.loads(extract_json_from_text(text_content))
ParseJudgeText(text_content) == JsonLoads(ExtractJsonFromText(text_content))

\* ------------------------------------------------------------------------
\* Python conversions of the values json.loads returns
\* ------------------------------------------------------------------------
RECURSIVE Gcd(_, _)
Gcd(a, b) == IF b = 0 THEN a ELSE Gcd(b, a % b)

\* a float as the ratio it stands for, in lowest terms
Ratio(a, b) ==
  IF a < 0 THEN [num |-> 0 - ((0 - a) \div Gcd(0 - a, b)), den |-> b \div Gcd(0 - a, b)]
  ELSE [num |-> a \div Gcd(a, b), den |-> b \div Gcd(a, b)]

\* float(x): [exc, val], exc the exception float raises (strings of the
\* model: digit strings or words)
PyFloat(x) ==
  IF x.t = "num" THEN [exc |-> "", val |-> Ratio(x.n, 1)]
  ELSE IF x.t = "bool" THEN [exc |-> "", val |-> Ratio(IF x.b THEN 1 ELSE 0, 1)]
  ELSE IF x.t = "str"
  THEN IF x.s # <<>> /\ \A k \in 1..Len(x.s) : IsDigit(x.s[k])
       THEN [exc |-> "", val |-> Ratio(ScanDigits(x.s, 1, 0).val.n, 1)]
       ELSE [exc |-> "ValueError", val |-> Ratio(0, 1)]
  ELSE [exc |-> "TypeError", val |-> Ratio(0, 1)]

\* bool(x)
PyBool(x) ==
  IF x.t = "null" THEN FALSE
  ELSE IF x.t = "bool" THEN x.b
  ELSE IF x.t = "num" THEN x.n # 0
  ELSE IF x.t = "str" THEN x.s # <<>>
  ELSE IF x.t = "list" THEN x.items # <<>>
  ELSE x.k # <<>>

\* the items enumerate(x) gives: [exc, items]
Enumerate(x) ==
  IF x.t = "list" THEN [exc |-> "", items |-> x.items]
  ELSE IF x.t = "str" THEN [exc |-> "", items |-> [i \in 1..Len(x.s) |-> JStr(<<x.s[i]>>)]]
  ELSE IF x.t = "dict" THEN [exc |-> "", items |-> [i \in 1..Len(x.k) |-> JStr(x.k[i])]]
  ELSE [exc |-> "TypeError", items |-> <<>>]

\* ------------------------------------------------------------------------
\* BinaryCorrectnessMetric and AtomicCorrectnessMetric: what _grade_one and
\* _check_one_fact do with a response
\* ------------------------------------------------------------------------
BinaryName == "correctness_binary"
AtomicName == "correctness_atomic"

\* the fallback explanation of the binary metric, before the raw content
FailedToParse ==
  <<"F", "a", "i", "l", "e", "d", " ", "t", "o", " ", "p", "a", "r", "s", "e", " ", "j",
    "u", "d", "g", "e", " ", "r", "e", "s", "p", "o", "n", "s", "e", ".", " ", "R", "a",
    "w", " ", "c", "o", "n", "t", "e", "n", "t", ":", " ">>

\* text_content[:200]
RawContentLimit == 200

NoRecord == [id |-> <<>>, metric |-> "", score |-> Ratio(0, 1),
             ai_evaluation_explanation |-> [explanation |-> JNull]]

\* what _grade_one does: [exc, rec], exc the exception that leaves it, rec
\* the record it returns
Raised(exc) == [exc |-> exc, rec |-> NoRecord]
Returned(rec) == [exc |-> "", rec |-> rec]

\* obj of BinaryCorrectnessMetric._grade_one (lines 99-103)
BinaryObj(text_content, parsed) ==
  IF parsed.ok THEN parsed.val
  ELSE JDict(<<K_score, K_explanation>>,
             <<JNum(0),
               JStr(FailedToParse
                    \o SubSeq(text_content, 1,
                              IF Len(text_content) < RawContentLimit
                              THEN Len(text_content) ELSE RawContentLimit))>>)

\* the return statement of BinaryCorrectnessMetric._grade_one
BinaryRecord(sample, obj) ==
  IF obj.t # "dict" THEN Raised("AttributeError")
  ELSE IF PyFloat(Get(obj, K_score, JNum(0))).exc # ""
  THEN Raised(PyFloat(Get(obj, K_score, JNum(0))).exc)
  ELSE Returned([id |-> sample.sample_id,
                 metric |-> BinaryName,
                 score |-> PyFloat(Get(obj, K_score, JNum(0))).val,
                 ai_evaluation_explanation |->
                   [explanation |-> Get(obj, K_explanation, JStr(<<>>))]])

\* BinaryCorrectnessMetric._grade_one from the response of the judge on
BinaryGradeOne(sample, content) ==
  BinaryRecord(sample, BinaryObj(ExtractTextContent(content),
                                 ParseJudgeText(ExtractTextContent(content))))

\* atomic_facts of AtomicCorrectnessMetric._grade_one (lines 159-164):
\* [exc, val]
AtomicFacts(parsed) ==
  IF ~parsed.ok THEN [exc |-> "", val |-> JList(<<>>)]
  ELSE IF parsed.val.t # "dict" THEN [exc |-> "AttributeError", val |-> JList(<<>>)]
  ELSE [exc |-> "", val |-> Get(parsed.val, <<"a", "t", "o", "m", "i", "c", "_", "f", "a", "c", "t", "s">>, JList(<<>>))]

\* the record of a sample without atomic facts (lines 168-178)
NoFactsRecord(sample) ==
  [id |-> sample.sample_id,
   metric |-> AtomicName,
   score |-> Ratio(0, 1),
   ai_evaluation_explanation |->
     [atomic_facts_count |-> 0,
      atomic_facts_found |-> 0,
      explanation |-> JStr(<<"F", "a", "i", "l", "e", "d", " ", "t", "o", " ", "e", "x", "t", "r", "a", "c",
            "t", " ", "a", "t", "o", "m", "i", "c", " ", "f", "a", "c", "t", "s", " ", "f",
            "r", "o", "m", " ", "r", "e", "f", "e", "r", "e", "n", "c", "e", " ", "a", "n",
            "s", "w", "e", "r">>),
      atomic_facts |-> <<>>]]

NoVerdict == [fact_index |-> 0 - 1, atomic_fact |-> JNull, found |-> FALSE, explanation |-> JNull]

\* _check_one_fact from json.loads on: [exc, verdict]
CheckOneFact(fact_index, atomic_fact, parsed) ==
  IF ~parsed.ok
  THEN [exc |-> "",
        verdict |-> [fact_index |-> fact_index, atomic_fact |-> atomic_fact,
                     found |-> FALSE,
                     explanation |-> JStr(<<"F", "a", "i", "l", "e", "d", " ", "t", "o", " ", "p", "a", "r", "s", "e", " ",
            "j", "u", "d", "g", "e", " ", "r", "e", "s", "p", "o", "n", "s", "e", " ", "f",
            "o", "r", " ", "t", "h", "i", "s", " ", "a", "t", "o", "m", "i", "c", " ", "f",
            "a", "c", "t", ".">>)]]
  ELSE IF parsed.val.t # "dict" THEN [exc |-> "AttributeError", verdict |-> NoVerdict]
  ELSE [exc |-> "",
        verdict |-> [fact_index |-> fact_index, atomic_fact |-> atomic_fact,
                     found |-> PyBool(Get(parsed.val, <<"f", "o", "u", "n", "d">>, JBool(FALSE))),
                     explanation |-> Get(parsed.val, K_explanation, JStr(<<>>))]]

\* ------------------------------------------------------------------------
\* Inputs of evaluate: the samples and what the judge model answers
\* ------------------------------------------------------------------------
\* the sample ids of a call of evaluate: no sample, one, two
GradedIds == {<<>>, <<<<"p">>>>, <<<<"p">>, <<"q", CR>>>>}

\* resp.content of the grading call: a fenced json block, an object in
\* prose, a refusal, the json value null, a score that is a word, two
\* objects in one text, an object before a fenced block, and a list of
\* content blocks
BinaryResponses ==
  {JStr(<<TICK, TICK, TICK, "j", "s", "o", "n", LF, "{", DQ, "s", "c", "o", "r", "e", DQ,
        ":", " ", "1", COMMA, " ", DQ, "e", "x", "p", "l", "a", "n", "a", "t", "i", "o",
        "n", DQ, ":", " ", DQ, "o", "k", DQ, "}", LF, TICK, TICK, TICK>>),
   JStr(<<"N", "o", ":", " ", "{", DQ, "s", "c", "o", "r", "e", DQ, ":", " ", "0", "}", " ",
        "i", "s", " ", "m", "y", " ", "g", "r", "a", "d", "e">>),
   JStr(<<"I", " ", "c", "a", "n", "n", "o", "t", " ", "a", "n", "s", "w", "e", "r">>),
   JStr(<<"n", "u", "l", "l">>),
   JStr(<<"{", DQ, "s", "c", "o", "r", "e", DQ, ":", " ", DQ, "h", "i", "g", "h", DQ, "}">>),
   JStr(<<"{", DQ, "s", "c", "o", "r", "e", DQ, ":", " ", "1", "}", " ", "o", "r", " ", "{",
        DQ, "s", "c", "o", "r", "e", DQ, ":", " ", "0", "}">>),
   JStr(<<"{", DQ, "s", "c", "o", "r", "e", DQ, ":", " ", "0", "}", "?", " ", TICK, TICK,
        TICK, "{", DQ, "s", "c", "o", "r", "e", DQ, ":", " ", "1", "}", TICK, TICK, TICK>>),
   JList(<<JDict(<<<<"t", "y", "p", "e">>, <<"t", "e", "x", "t">>>>,
                 <<JStr(<<"t", "e", "x", "t">>), JStr(<<"{", DQ, "s", "c", "o", "r", "e", DQ>>)>>),
           JDict(<<<<"t", "e", "x", "t">>>>, <<JStr(<<":", " ", "1", "}">>)>>)>>)}

\* resp.content of the extraction call: a refusal, no fact, one fact, two
\* facts, three facts in a fenced block, the json value null, and a number
\* in the place of the list
ExtractResponses ==
  {JStr(<<"I", " ", "c", "a", "n", "n", "o", "t", " ", "a", "n", "s", "w", "e", "r">>),
   JStr(<<"{", DQ, "a", "t", "o", "m", "i", "c", "_", "f", "a", "c", "t", "s", DQ, ":", " ",
        "[", "]", "}">>),
   JStr(<<"{", DQ, "a", "t", "o", "m", "i", "c", "_", "f", "a", "c", "t", "s", DQ, ":", " ",
        "[", DQ, "f", DQ, "]", "}">>),
   JStr(<<"F", "a", "c", "t", "s", ":", " ", "{", DQ, "a", "t", "o", "m", "i", "c", "_", "f",
        "a", "c", "t", "s", DQ, ":", " ", "[", DQ, "f", DQ, COMMA, " ", DQ, "g", DQ, "]",
        "}">>),
   JStr(<<TICK, TICK, TICK, LF, "{", DQ, "a", "t", "o", "m", "i", "c", "_", "f", "a", "c",
        "t", "s", DQ, ":", " ", "[", DQ, "f", DQ, COMMA, " ", DQ, "g", DQ, COMMA, " ", DQ,
        "h", DQ, "]", "}", LF, TICK, TICK, TICK>>),
   JStr(<<"n", "u", "l", "l">>),
   JStr(<<"{", DQ, "a", "t", "o", "m", "i", "c", "_", "f", "a", "c", "t", "s", DQ, ":", " ",
        "1", "}">>)}

\* resp.content of a verification call: found, not found, a refusal, and
\* the json value null
CheckResponses ==
  {JStr(<<"{", DQ, "f", "o", "u", "n", "d", DQ, ":", " ", "t", "r", "u", "e", COMMA, " ", DQ,
        "e", "x", "p", "l", "a", "n", "a", "t", "i", "o", "n", DQ, ":", " ", DQ, "y", DQ,
        "}">>),
   JStr(<<TICK, TICK, TICK, "j", "s", "o", "n", " ", "{", DQ, "f", "o", "u", "n", "d", DQ,
        ":", " ", "f", "a", "l", "s", "e", "}", " ", TICK, TICK, TICK>>),
   JStr(<<"I", " ", "c", "a", "n", "n", "o", "t", " ", "a", "n", "s", "w", "e", "r">>),
   JStr(<<"n", "u", "l", "l">>)}

\* ------------------------------------------------------------------------
\* evaluate of a judge metric: one _grade_one task per sample, and in the
\* atomic metric one _check_one_fact task per atomic fact of a sample
\* ------------------------------------------------------------------------
\* a _grade_one task: where it is (created, judge or extract: awaiting the
\* call, verify: awaiting the gather of its checks, returned, raised), the
\* grading or extraction calls it issued, the response to that call, its
\* atomic facts, per fact the
\* _check_one_fact task (running, done), the verification calls issued and
\* the verdict, the facts in the order their checks returned, and how the
\* task ended
NoGrade ==
  [at |-> "created", calls |-> 0, response |-> JNull, atomic_facts |-> <<>>, checks |-> <<>>,
   check_calls |-> <<>>, verdicts |-> <<>>, completed |-> <<>>, out |-> Returned(NoRecord)]

\* the variables of run_evaluation that evaluate does not reach
callerVars == <<runs, rerun, prev, file, file0, dataVars, cacheVars, rag_app, client_built,
                genVars, new_model_outputs, model_outputs, metricVars, outVars>>

\* fact_evaluations.sort(key=lambda x: x["fact_index"]): a stable sort,
\* SortedPlace(j) the place of entry j in the sorted list
SortByFactIndex(es) ==
  LET SortedPlace(j) ==
        Cardinality({m \in 1..Len(es) :
                       \/ es[m].fact_index < es[j].fact_index
                       \/ es[m].fact_index = es[j].fact_index /\ m < j}) + 1
  IN [i \in 1..Len(es) |-> es[CHOOSE j \in 1..Len(es) : SortedPlace(j) = i]]

\* the verdicts collected as the checks return, and not sorted
FactEvaluationsAsCompleted(verdicts, completed) == GatherAsCompleted(verdicts, completed)

\* fact_evaluations: the result of gather, then the sort (lines 235-240)
FactEvaluations(verdicts, completed) == SortByFactIndex(Gather(verdicts, completed))

\* the record with the score of the integer division facts_found //
\* total_facts
AtomicRecordFloorDiv(sample, atomic_facts, fact_evaluations) ==
  LET facts_found ==
        Cardinality({i \in 1..Len(fact_evaluations) : fact_evaluations[i].found})
      total_facts == Len(atomic_facts)
  IN [id |-> sample.sample_id,
      metric |-> AtomicName,
      score |-> IF total_facts > 0 THEN Ratio(facts_found \div total_facts, 1) ELSE Ratio(0, 1),
      ai_evaluation_explanation |->
        [atomic_facts_count |-> total_facts,
         atomic_facts_found |-> facts_found,
         fact_evaluations |-> fact_evaluations]]

\* the record of a sample with atomic facts (lines 243-256)
AtomicRecord(sample, atomic_facts, fact_evaluations) ==
  LET facts_found ==
        Cardinality({i \in 1..Len(fact_evaluations) : fact_evaluations[i].found})
      total_facts == Len(atomic_facts)
  IN [id |-> sample.sample_id,
      metric |-> AtomicName,
      score |-> IF total_facts > 0 THEN Ratio(facts_found, total_facts) ELSE Ratio(0, 1),
      ai_evaluation_explanation |->
        [atomic_facts_count |-> total_facts,
         atomic_facts_found |-> facts_found,
         fact_evaluations |-> fact_evaluations]]

\* the task g with _grade_one ended as out says: its local variables are
\* gone; the calls it issued, the response to the first of them and the
\* order in which its checks returned stay what they were
Settle(g, out) ==
  [NoGrade EXCEPT !.at = IF out.exc # "" THEN "raised" ELSE "returned",
                  !.calls = g.calls,
                  !.response = g.response,
                  !.check_calls = g.check_calls,
                  !.completed = IF out.exc # "" THEN <<>> ELSE g.completed,
                  !.out = out]

\* the task g after the extraction with the branch of the empty list
\* (lines 166-178) left out: an empty list goes on to the gather of no check
AfterExtractionNoEmptyBranch(g, sample, facts) ==
  IF facts.exc # "" THEN Settle(g, Raised(facts.exc))
  ELSE IF Enumerate(facts.val).exc # "" THEN Settle(g, Raised(Enumerate(facts.val).exc))
  ELSE [g EXCEPT !.at = "verify",
                 !.atomic_facts = Enumerate(facts.val).items,
                 !.checks = [f \in 1..Len(Enumerate(facts.val).items) |-> "running"],
                 !.check_calls = [f \in 1..Len(Enumerate(facts.val).items) |-> 1],
                 !.verdicts = [f \in 1..Len(Enumerate(facts.val).items) |-> NoVerdict]]

\* the task g of the atomic metric after lines 159-164 gave facts: the
\* record without facts, or one _check_one_fact task per fact, each run up
\* to its await of judge_model.ainvoke
AfterExtraction(g, sample, facts) ==
  IF facts.exc # "" THEN Settle(g, Raised(facts.exc))
  ELSE IF ~PyBool(facts.val) THEN Settle(g, Returned(NoFactsRecord(sample)))
  ELSE IF Enumerate(facts.val).exc # "" THEN Settle(g, Raised(Enumerate(facts.val).exc))
  ELSE [g EXCEPT !.at = "verify",
                 !.atomic_facts = Enumerate(facts.val).items,
                 !.checks = [f \in 1..Len(Enumerate(facts.val).items) |-> "running"],
                 !.check_calls = [f \in 1..Len(Enumerate(facts.val).items) |-> 1],
                 !.verdicts = [f \in 1..Len(Enumerate(facts.val).items) |-> NoVerdict]]

\* the task g after the check of its fact f ended as r says
AfterCheck(g, f, r) ==
  IF r.exc # "" THEN Settle(g, Raised(r.exc))
  ELSE [g EXCEPT !.checks[f] = "done",
                 !.verdicts[f] = r.verdict,
                 !.completed = Append(@, f)]

\* metric.evaluate(samples, model_outputs) is called
JudgeInit ==
  /\ pc = "Evaluate"
  /\ metric_name \in {BinaryName, AtomicName}
  /\ \E ids \in GradedIds :
       /\ samples = ExtractEvalSamples("ok", ids).samples
       /\ model_outputs = [i \in 1..Len(ids) |-> GenerateOutput(samples[i])]
       /\ grade = [i \in 1..Len(ids) |-> NoGrade]
  /\ records = <<>>
  /\ runs = 0
  /\ rerun = FALSE
  /\ prev = NoPrev
  /\ file = NoFile
  /\ file0 = NoFile
  /\ columns = "ok"
  /\ genCalls = <<>>
  /\ persist_rag_outputs = FALSE
  /\ persisted_results = NoResults
  /\ loaded = NoLoaded
  /\ missing_samples = <<>>
  /\ rag_app = "unread"
  /\ client_built = FALSE
  /\ max_concurrency = 0
  /\ sem = 0
  /\ tasks = <<>>
  /\ taskResult = <<>>
  /\ doneOrder = <<>>
  /\ gatherExc = FALSE
  /\ new_model_outputs = <<>>
  /\ metrics = <<>>
  /\ per_sample_results = <<>>
  /\ judgeCalled = FALSE
  /\ summary = NoSummary
  /\ written = {}
  /\ uploaded = FALSE
  /\ error = ""
  /\ StatsIdle
  /\ AggIdle
  /\ ToolIdle

\* the task of sample s runs up to its await of judge_model.ainvoke
StartGrade(s) ==
  /\ pc = "Evaluate"
  /\ grade[s].at = "created"
  /\ grade' = [grade EXCEPT ![s].at = IF metric_name = BinaryName THEN "judge" ELSE "extract",
                            ![s].calls = @ + 1]
  /\ UNCHANGED <<pc, error, callerVars, toolVars, statsVars, aggVars, metric_name, records>>

\* the grading call of sample s returns (BinaryCorrectnessMetric)
BinaryResponds(s) ==
  /\ pc = "Evaluate"
  /\ grade[s].at = "judge"
  /\ \E content \in BinaryResponses :
       grade' = [grade EXCEPT ![s] = Settle([@ EXCEPT !.response = content],
                                            BinaryGradeOne(samples[s], content))]
  /\ UNCHANGED <<pc, error, callerVars, toolVars, statsVars, aggVars, metric_name, records>>

\* the extraction call of sample s returns (AtomicCorrectnessMetric)
ExtractResponds(s) ==
  /\ pc = "Evaluate"
  /\ grade[s].at = "extract"
  /\ \E content \in ExtractResponses :
       grade' = [grade EXCEPT ![s] =
                   AfterExtraction([@ EXCEPT !.response = content], samples[s],
                                   AtomicFacts(ParseJudgeText(ExtractTextContent(content))))]
  /\ UNCHANGED <<pc, error, callerVars, toolVars, statsVars, aggVars, metric_name, records>>

\* the verification call for fact f of sample s returns
CheckResponds(s, f) ==
  /\ pc = "Evaluate"
  /\ grade[s].at = "verify"
  /\ grade[s].checks[f] = "running"
  /\ \E content \in CheckResponses :
       grade' = [grade EXCEPT ![s] =
                   AfterCheck(@, f, CheckOneFact(f - 1, grade[s].atomic_facts[f],
                                                 ParseJudgeText(ExtractTextContent(content))))]
  /\ UNCHANGED <<pc, error, callerVars, toolVars, statsVars, aggVars, metric_name, records>>

\* the gather of the checks of sample s returns; _grade_one returns the
\* record
GatherFacts(s) ==
  /\ pc = "Evaluate"
  /\ grade[s].at = "verify"
  /\ GatherDone(grade[s].checks)
  /\ grade' = [grade EXCEPT ![s] =
                 Settle(@, Returned(AtomicRecord(samples[s], grade[s].atomic_facts,
                                                 FactEvaluations(grade[s].verdicts,
                                                                 grade[s].completed))))]
  /\ UNCHANGED <<pc, error, callerVars, toolVars, statsVars, aggVars, metric_name, records>>

\* the gather of the _grade_one tasks returns: evaluate returns the records
EvaluateReturns ==
  /\ pc = "Evaluate"
  /\ \A s \in 1..Len(grade) : grade[s].at = "returned"
  /\ records' = Gather([s \in 1..Len(grade) |-> grade[s].out.rec], <<>>)
  /\ pc' = "Returned"
  /\ UNCHANGED <<error, callerVars, toolVars, statsVars, aggVars, metric_name, grade>>

\* a _grade_one task raised: the await of gather raises, and evaluate with it
EvaluateRaises ==
  /\ pc = "Evaluate"
  /\ \E s \in 1..Len(grade) :
       /\ grade[s].at = "raised"
       /\ error' = grade[s].out.exc
  /\ pc' = "EvaluateRaised"
  /\ UNCHANGED <<callerVars, toolVars, statsVars, aggVars, metric_name, grade, records>>

\* write_csv_results, lines 41-63 of outputs.py: sample_data, the mapping
\* from a sample id to the position of the last sample with the id (whose
\* input, source and reference answer the entry holds) and to its answer
SampleData(ss, outputs) ==
  LET n == IF Len(ss) < Len(outputs) THEN Len(ss) ELSE Len(outputs)
      ids == {ss[k].sample_id : k \in 1..n}
      Last(id) == CHOOSE k \in 1..n :
                    /\ ss[k].sample_id = id
                    /\ \A j \in (k + 1)..n : ss[j].sample_id # id
  IN [id \in ids |-> [sample_idx |-> Last(id), ai_answer |-> outputs[Last(id)].answer]]

\* write_csv_results: the dicts it passes to writer.writerow, one per
\* record (lines 70-92). sample_idx stands for input_prompt, source and
\* reference_answer: they are those of the sample at that position, and
\* empty for 0
WriteCsvResults(results, ss, outputs) ==
  [i \in 1..Len(results) |->
     LET r == results[i]
         sample_data == SampleData(ss, outputs)
         sample_info == IF r.id \in DOMAIN sample_data THEN sample_data[r.id]
                        ELSE [sample_idx |-> 0, ai_answer |-> <<>>]
     IN [id |-> r.id,
         metric |-> r.metric,
         sample_idx |-> sample_info.sample_idx,
         ai_answer |-> sample_info.ai_answer,
         score |-> r.score,
         explanation |-> IF "extra" \in DOMAIN r
                         THEN IF "explanation" \in DOMAIN r.extra THEN r.extra.explanation
                              ELSE JStr(<<>>)
                         ELSE JStr(<<>>)]]

\* run_evaluation writes results.csv from the records (line 249)
WriteResults ==
  /\ pc = "Returned"
  /\ results_csv' = WriteCsvResults(records, samples, model_outputs)
  /\ pc' = "Written"
  /\ UNCHANGED <<error, callerVars, fetchVars, client_calls, statsVars, aggVars, metric_name,
                 grade, records>>

JudgeNext ==
  \/ \E s \in 1..Len(grade) : StartGrade(s)
  \/ \E s \in 1..Len(grade) : BinaryResponds(s)
  \/ \E s \in 1..Len(grade) : ExtractResponds(s)
  \/ \E s \in 1..Len(grade) : \E f \in 1..Len(grade[s].checks) : CheckResponds(s, f)
  \/ \E s \in 1..Len(grade) : GatherFacts(s)
  \/ EvaluateReturns
  \/ EvaluateRaises
  \/ WriteResults

SpecJudge == JudgeInit /\ [][JudgeNext]_vars

\* ------------------------------------------------------------------------
\* stats_utils: aggregate_metric
\* ------------------------------------------------------------------------
MaxCalls == 3
\* the number of resamples (1000 in the code)
n_boot == 2
Seed == 42

\* a float is the ratio it stands for; nan is the ratio with den 0
NaN == [num |-> 0, den |-> 0]

\* x <= y on floats: False when one of them is nan
Leq(x, y) == x.den # 0 /\ y.den # 0 /\ x.num * y.den <= y.num * x.den

\* x + y on floats
Add(x, y) ==
  IF x.den = 0 \/ y.den = 0 THEN NaN
  ELSE Ratio(x.num * y.den + y.num * x.den, x.den * y.den)

\* x * c / d on floats, c and d integers, d > 0
Scaled(x, c, d) == IF x.den = 0 THEN NaN ELSE Ratio(x.num * c, x.den * d)

RECURSIVE Total(_)
Total(a) == IF a = <<>> THEN Ratio(0, 1) ELSE Add(Head(a), Total(Tail(a)))

\* arr.mean()
Mean(a) == Scaled(Total(a), 1, Len(a))

\* np.percentile(a, q) with q = w / 40 of 100 (2.5 is w = 1, 50 is w = 20,
\* 97.5 is w = 39): linear interpolation between the two values of the
\* sorted array around the index (n - 1) * q / 100; nan when a holds a nan
Percentile(a, w) ==
  IF \E i \in 1..Len(a) : a[i].den = 0 THEN NaN
  ELSE LET n == Len(a)
           order == CHOOSE f \in [1..n -> 1..n] :
                      /\ \A i, j \in 1..n : i # j => f[i] # f[j]
                      /\ \A i \in 1..(n - 1) : Leq(a[f[i]], a[f[i + 1]])
           lo == ((n - 1) * w) \div 40 + 1
           hi == IF lo < n THEN lo + 1 ELSE n
           g == ((n - 1) * w) % 40
       IN Add(Scaled(a[order[lo]], 40 - g, 40), Scaled(a[order[hi]], g, 40))

\* min and max read from the ends of the list as it was passed
AggregateMetricFirstLast(arr, means) ==
  IF arr = <<>>
  THEN [mean |-> NaN, median |-> NaN, min |-> NaN, max |-> NaN,
        ci_lower |-> NaN, ci_upper |-> NaN]
  ELSE [mean |-> Mean(arr), median |-> Percentile(arr, 20),
        min |-> arr[1], max |-> arr[Len(arr)],
        ci_lower |-> Percentile(means, 1), ci_upper |-> Percentile(means, 39)]

\* the dict aggregate_metric returns for the scores arr, means being the
\* resample means of the loop (std, a square root, is left out: nothing
\* below reads it)
AggregateMetric(arr, means) ==
  IF arr = <<>>
  THEN [mean |-> NaN, median |-> NaN, min |-> NaN, max |-> NaN,
        ci_lower |-> NaN, ci_upper |-> NaN]
  ELSE LET anyNaN == \E i \in 1..Len(arr) : arr[i].den = 0
           values == {arr[i] : i \in 1..Len(arr)}
           least == CHOOSE x \in values : \A y \in values : Leq(x, y)
           greatest == CHOOSE x \in values : \A y \in values : Leq(y, x)
       IN [mean |-> Mean(arr), median |-> Percentile(arr, 20),
           min |-> IF anyNaN THEN NaN ELSE least,
           max |-> IF anyNaN THEN NaN ELSE greatest,
           ci_lower |-> Percentile(means, 1), ci_upper |-> Percentile(means, 39)]

\* the generator is the one an earlier call left behind, when there is one
DefaultRngKept(left) ==
  IF left.seed = Seed THEN left ELSE [seed |-> Seed, pos |-> 0]

\* np.random.default_rng(42) at line 29: a new generator at the start of
\* its stream, whatever generator an earlier call left behind
DefaultRng(left) == [seed |-> Seed, pos |-> 0]

\* the score lists aggregate_metric is called with: none, one score, two
\* different scores, and a score that is nan
ScoreLists ==
  { <<>>, <<Ratio(1, 1)>>, <<Ratio(1, 1), Ratio(0, 1)>>, <<NaN>> }

\* run_evaluation and evaluate are not running
PipelineIdle ==
  /\ samples = <<>>
  /\ model_outputs = <<>>
  /\ runs = 0
  /\ rerun = FALSE
  /\ prev = NoPrev
  /\ file = NoFile
  /\ file0 = NoFile
  /\ columns = "ok"
  /\ genCalls = <<>>
  /\ persist_rag_outputs = FALSE
  /\ persisted_results = NoResults
  /\ loaded = NoLoaded
  /\ missing_samples = <<>>
  /\ rag_app = "unread"
  /\ client_built = FALSE
  /\ max_concurrency = 0
  /\ sem = 0
  /\ tasks = <<>>
  /\ taskResult = <<>>
  /\ doneOrder = <<>>
  /\ gatherExc = FALSE
  /\ new_model_outputs = <<>>
  /\ metrics = <<>>
  /\ per_sample_results = <<>>
  /\ judgeCalled = FALSE
  /\ summary = NoSummary
  /\ written = {}
  /\ uploaded = FALSE
  /\ error = ""
  /\ JudgeIdle

StatsInit ==
  /\ pc = "Aggregate"
  /\ PipelineIdle
  /\ StatsIdle
  /\ AggIdle
  /\ ToolIdle

\* aggregate_metric(xs) is called: lines 8-29
CallAggregate(xs) ==
  /\ pc = "Aggregate"
  /\ Len(aggregated) < MaxCalls
  /\ scores' = xs
  /\ boot_means' = <<>>
  /\ IF xs = <<>>
     THEN pc' = "AggregateReturns" /\ rng' = rng
     ELSE pc' = "Bootstrap" /\ rng' = DefaultRng(rng)
  /\ UNCHANGED <<error, callerVars, toolVars, judgeVars, aggVars, stream, aggregated>>

\* one pass of the loop, lines 31-33: rng.choice draws the indexes idx; a
\* generator with the same seed at the same position draws what was drawn
\* there before
Resample(idx) ==
  /\ pc = "Bootstrap"
  /\ Len(boot_means) < n_boot
  /\ LET draw == [seed |-> rng.seed, pos |-> rng.pos, size |-> Len(scores), idx |-> idx]
     IN /\ \A d \in stream :
             (d.seed = draw.seed /\ d.pos = draw.pos /\ d.size = draw.size) => d = draw
        /\ stream' = stream \cup {draw}
  /\ boot_means' = Append(boot_means, Mean([i \in 1..Len(scores) |-> scores[idx[i]]]))
  /\ rng' = [rng EXCEPT !.pos = @ + 1]
  /\ pc' = IF Len(boot_means) + 1 = n_boot THEN "AggregateReturns" ELSE "Bootstrap"
  /\ UNCHANGED <<error, callerVars, toolVars, judgeVars, aggVars, scores, aggregated>>

\* return, lines 11-19 and 38-46
AggregateReturns ==
  /\ pc = "AggregateReturns"
  /\ aggregated' = Append(aggregated, [scores |-> scores,
                                       stats |-> AggregateMetric(scores, boot_means)])
  /\ scores' = <<>>
  /\ boot_means' = <<>>
  /\ pc' = "Aggregate"
  /\ UNCHANGED <<error, callerVars, toolVars, judgeVars, aggVars, rng, stream>>

StatsNext ==
  \/ \E xs \in ScoreLists : CallAggregate(xs)
  \/ \E idx \in [1..Len(scores) -> 1..Len(scores)] : Resample(idx)
  \/ AggregateReturns

SpecStats == StatsInit /\ [][StatsNext]_vars

\* ------------------------------------------------------------------------
\* aggregate_evals: timestamps
\* ------------------------------------------------------------------------
\* the characters of the texts below, in the order of their code points
CodePoints ==
  <<"+", "-", "/", "0", "1", "2", "3", "4", "5", "6", "7", "8", "9", ":", "A", "N", "T",
    "Z", "_", "a", "b", "c", "n", "o", "s", "z">>

RECURSIVE TextLess(_, _)
\* a < b on str
TextLess(a, b) ==
  IF b = <<>> THEN FALSE
  ELSE IF a = <<>> THEN TRUE
  ELSE IF Head(a) = Head(b) THEN TextLess(Tail(a), Tail(b))
  ELSE (CHOOSE k \in 1..Len(CodePoints) : CodePoints[k] = Head(a))
         < (CHOOSE k \in 1..Len(CodePoints) : CodePoints[k] = Head(b))

\* None where a datetime is expected
NoDatetime ==
  [some |-> FALSE, year |-> 0, month |-> 0, day |-> 0, hour |-> 0, minute |-> 0,
   second |-> 0, aware |-> FALSE, utcoffset |-> 0]

\* a datetime without tzinfo (whole seconds)
Naive(y, mo, d, h, mi, s) ==
  [some |-> TRUE, year |-> y, month |-> mo, day |-> d, hour |-> h, minute |-> mi,
   second |-> s, aware |-> FALSE, utcoffset |-> 0]

\* datetime.min
DatetimeMin == Naive(1, 1, 1, 0, 0, 0)

DaysInMonth(y, mo) ==
  IF mo = 2
  THEN IF y % 4 = 0 /\ (y % 100 # 0 \/ y % 400 = 0) THEN 29 ELSE 28
  ELSE IF mo \in {4, 6, 9, 11} THEN 30 ELSE 31

\* a < b on datetimes without tzinfo
DatetimeLess(a, b) ==
  LET Date(x) == (x.year * 12 + x.month) * 31 + x.day
      Time(x) == (x.hour * 60 + x.minute) * 60 + x.second
  IN Date(a) < Date(b) \/ (Date(a) = Date(b) /\ Time(a) < Time(b))

\* datetime.fromisoformat(t): [exc, dt]. The texts of the model have the
\* form YYYY-MM-DDTHH:MM:SS, with or without an offset +HH:MM or -HH:MM, or
\* are no timestamp at all; utcoffset is in minutes
FromIsoFormat(t) ==
  LET Two(i) == 10 * DigitValue(t[i]) + DigitValue(t[i + 1])
      year == 100 * Two(1) + Two(3)
      shaped ==
        /\ Len(t) \in {19, 25}
        /\ t[5] = "-" /\ t[8] = "-" /\ t[11] = "T" /\ t[14] = ":" /\ t[17] = ":"
        /\ \A i \in {1, 2, 3, 4, 6, 7, 9, 10, 12, 13, 15, 16, 18, 19} : IsDigit(t[i])
        /\ Len(t) = 25 =>
             /\ t[20] \in {"+", "-"} /\ t[23] = ":"
             /\ \A i \in {21, 22, 24, 25} : IsDigit(t[i])
             /\ Two(21) < 24 /\ Two(24) < 60
        /\ year >= 1 /\ Two(6) \in 1..12 /\ Two(9) \in 1..DaysInMonth(year, Two(6))
        /\ Two(12) < 24 /\ Two(15) < 60 /\ Two(18) < 60
  IN IF ~shaped THEN [exc |-> "ValueError", dt |-> NoDatetime]
     ELSE [exc |-> "",
           dt |-> [Naive(year, Two(6), Two(9), Two(12), Two(15), Two(18))
                     EXCEPT !.aware = (Len(t) = 25),
                            !.utcoffset = IF Len(t) = 19 THEN 0
                                          ELSE IF t[20] = "-"
                                               THEN 0 - (60 * Two(21) + Two(24))
                                               ELSE 60 * Two(21) + Two(24)]]

\* dt.isoformat() of a datetime without tzinfo
IsoFormat(dt) ==
  LET Pad(n, w) == [k \in 1..w |-> Digits[((n \div (10 ^ (w - k))) % 10) + 1]]
  IN Pad(dt.year, 4) \o <<"-">> \o Pad(dt.month, 2) \o <<"-">> \o Pad(dt.day, 2)
       \o <<"T">> \o Pad(dt.hour, 2) \o <<":">> \o Pad(dt.minute, 2) \o <<":">>
       \o Pad(dt.second, 2)

\* tzinfo dropped, the local time kept as it is
NormalizeDatetimeKeepLocal(dt) ==
  IF ~dt.some THEN dt ELSE [dt EXCEPT !.aware = FALSE, !.utcoffset = 0]

\* normalize_datetime: None for None; an aware datetime moved to UTC
\* (astimezone) and then stripped of tzinfo; a naive one as it is. The
\* offset is less than a day, so the date moves by one day at most
NormalizeDatetime(dt) ==
  IF ~dt.some \/ ~dt.aware THEN dt
  ELSE LET local == (dt.hour * 60 + dt.minute) * 60 + dt.second - 60 * dt.utcoffset
           shift == IF local < 0 THEN 0 - 1 ELSE IF local >= 86400 THEN 1 ELSE 0
           utc == local - 86400 * shift
           date ==
             IF shift = 0 THEN <<dt.year, dt.month, dt.day>>
             ELSE IF shift = 1
             THEN IF dt.day < DaysInMonth(dt.year, dt.month)
                  THEN <<dt.year, dt.month, dt.day + 1>>
                  ELSE IF dt.month < 12 THEN <<dt.year, dt.month + 1, 1>>
                  ELSE <<dt.year + 1, 1, 1>>
             ELSE IF dt.day > 1 THEN <<dt.year, dt.month, dt.day - 1>>
                  ELSE IF dt.month > 1
                  THEN <<dt.year, dt.month - 1, DaysInMonth(dt.year, dt.month - 1)>>
                  ELSE <<dt.year - 1, 12, 31>>
       IN Naive(date[1], date[2], date[3], utc \div 3600, (utc % 3600) \div 60, utc % 60)

\* ------------------------------------------------------------------------
\* aggregate_evals: summaries, the table and the time series
\* ------------------------------------------------------------------------
MaxAggregations == 2

NA == <<"N", "/", "A">>

\* None where a count is expected
NoCount == [some |-> FALSE, n |-> 0]

\* the number of validation questions of the runs
Questions == [some |-> TRUE, n |-> 2]

\* a summary as run_evaluation writes it (lines 231-240 of
\* evals_pipeline.py): summary["run"]["evaluation_run_name"], ["run"]["mode"],
\* ["run"]["run_timestamp"], ["run"]["num_validation_questions"]
\* (run_num_validation_questions), ["run"]["notes"] (empty when the key is
\* missing), summary["file_mtime"] (NoDatetime when the key is missing),
\* summary["num_validation_questions"] (no such key), the keys of
\* summary["metrics"] that have a mean, and summary["metrics"]["m"]["mean"]
Summary(name, timestamp_str, mtime, mean) ==
  [evaluation_run_name |-> name, mode |-> "local", run_timestamp |-> timestamp_str,
   run_num_validation_questions |-> Questions, notes |-> <<>>, file_mtime |-> mtime,
   num_validation_questions |-> NoCount, metrics |-> {"m"}, mean |-> mean]

\* lines 308-324 of extract_metric_data (and 892-905): the timestamp of a
\* run, NoDatetime if it has none
RunTimestamp(s) ==
  LET timestamp_str == s.run_timestamp
      parsed == FromIsoFormat(Flatten([i \in 1..Len(timestamp_str) |->
                  IF timestamp_str[i] = "Z" THEN <<"+", "0", "0", ":", "0", "0">>
                  ELSE <<timestamp_str[i]>>]))
  IN NormalizeDatetime(
       IF timestamp_str # <<>> /\ timestamp_str # NA /\ parsed.exc = ""
       THEN parsed.dt ELSE s.file_mtime)

\* get_summary_timestamp
GetSummaryTimestamp(s) ==
  LET timestamp_str == s.run_timestamp
      parsed == FromIsoFormat(Flatten([i \in 1..Len(timestamp_str) |->
                  IF timestamp_str[i] = "Z" THEN <<"+", "0", "0", ":", "0", "0">>
                  ELSE <<timestamp_str[i]>>]))
      timestamp == IF timestamp_str # <<>> /\ timestamp_str # NA /\ parsed.exc = ""
                   THEN parsed.dt ELSE s.file_mtime
  IN IF timestamp.some THEN NormalizeDatetime(timestamp) ELSE DatetimeMin

\* list.sort and sorted: seq in the order of Before, elements neither of
\* which is before the other in the order they have in seq
StableSort(seq, Before(_, _)) ==
  LET Place(j) ==
        Cardinality({m \in 1..Len(seq) :
                       \/ Before(seq[m], seq[j])
                       \/ ~Before(seq[j], seq[m]) /\ m < j}) + 1
  IN [i \in 1..Len(seq) |-> seq[CHOOSE j \in 1..Len(seq) : Place(j) = i]]

\* the elements of seq at the indexes in keep, in their order
Kept(seq, keep) ==
  [k \in 1..Cardinality(keep) |->
     seq[CHOOSE i \in keep : Cardinality({j \in keep : j <= i}) = k]]

\* the sort key of lines 349 and 354: (timestamp or datetime.min, run id)
KeyBefore(p, q) ==
  LET a == IF p.timestamp.some THEN p.timestamp ELSE DatetimeMin
      b == IF q.timestamp.some THEN q.timestamp ELSE DatetimeMin
  IN DatetimeLess(a, b) \/ (a = b /\ TextLess(p.run_id, q.run_id))

\* timestamp.strftime('%Y-%m-%d %H:%M'): the year is written without
\* leading zeros (glibc)
Strftime(dt) ==
  LET iso == IsoFormat(dt)
      first == CHOOSE k \in 1..4 : iso[k] # "0" /\ \A j \in 1..(k - 1) : iso[j] = "0"
  IN SubSeq(iso, first, 10) \o <<" ">> \o SubSeq(iso, 12, 16)

\* what the loop of extract_metric_data computes for each summary, lines
\* 304-345: run id, timestamp, display name, and the point it appends for
\* each metric of the summary that has a mean (metrics)
Points(summaries) ==
  [i \in 1..Len(summaries) |->
     LET timestamp == RunTimestamp(summaries[i])
     IN [run_id |-> IF timestamp.some
                    THEN summaries[i].evaluation_run_name \o <<"_">> \o IsoFormat(timestamp)
                    ELSE summaries[i].evaluation_run_name,
         display_name |-> IF timestamp.some
                          THEN summaries[i].evaluation_run_name \o <<LF>> \o Strftime(timestamp)
                          ELSE summaries[i].evaluation_run_name,
         timestamp |-> timestamp,
         metrics |-> summaries[i].metrics,
         mean_value |-> summaries[i].mean]]

\* the points and the runs ordered by run id alone
ExtractMetricDataByRunId(summaries) ==
  LET ById(p, q) == TextLess(p.run_id, q.run_id)
      sorted == StableSort(Points(summaries), ById)
      runs_sorted == Kept(sorted, {i \in 1..Len(sorted) :
                                     \A j \in 1..(i - 1) : sorted[j].run_id # sorted[i].run_id})
  IN [metric_data |-> Kept(sorted, {i \in 1..Len(sorted) : "m" \in sorted[i].metrics}),
      ordered_runs |-> [i \in 1..Len(runs_sorted) |-> runs_sorted[i].run_id],
      run_id_to_display |-> [i \in 1..Len(runs_sorted) |-> runs_sorted[i].display_name]]

\* extract_metric_data: the points of metric m, the run ids (each once,
\* with the timestamp of the last summary that has the id) in the order of
\* the key, and for each of these run ids the display name the last
\* summary with the id gave it
ExtractMetricData(summaries) ==
  LET points == Points(summaries)
      last == {i \in 1..Len(points) :
                 \A j \in (i + 1)..Len(points) : points[j].run_id # points[i].run_id}
      runs_sorted == StableSort(Kept(points, last), KeyBefore)
  IN [metric_data |->
        StableSort(Kept(points, {i \in 1..Len(points) : "m" \in points[i].metrics}),
                   KeyBefore),
      ordered_runs |-> [i \in 1..Len(runs_sorted) |-> runs_sorted[i].run_id],
      run_id_to_display |-> [i \in 1..Len(runs_sorted) |-> runs_sorted[i].display_name]]

\* create_metric_table: the rows under the two header lines, as the texts
\* of their three cells; run_id_to_display is given in the order of
\* ordered_runs. The means of the model are whole numbers below 10
CreateMetricTable(data_points, run_ids, run_id_to_display) ==
  [i \in 1..Len(run_ids) |->
     LET mine == {a \in 1..Len(data_points) : data_points[a].run_id = run_ids[i]}
         point == data_points[CHOOSE a \in mine : \A b \in mine : b <= a]
         display_name == run_id_to_display[i]
         newline == {k \in 1..Len(display_name) : display_name[k] = LF}
     IN [run_name_only |->
           IF newline = {} THEN display_name
           ELSE SubSeq(display_name, 1, (CHOOSE k \in newline : \A j \in newline : k <= j) - 1),
         timestamp_str |-> IF mine # {} /\ point.timestamp.some
                           THEN Strftime(point.timestamp) ELSE NA,
         value |-> IF mine # {}
                   THEN <<Digits[point.mean_value + 1], ".", "0", "0", "0", "0">>
                   ELSE NA]]

\* summaries_to_dataframe: one row per summary; a cell is [na, s], na for
\* NaN
SummariesToDataframe(summaries) ==
  [i \in 1..Len(summaries) |->
     LET timestamp_str ==
           IF summaries[i].run_timestamp # <<>> THEN summaries[i].run_timestamp
           ELSE IF summaries[i].file_mtime.some THEN IsoFormat(summaries[i].file_mtime)
           ELSE <<>>
     IN [evaluation_run_name |-> summaries[i].evaluation_run_name,
         mode |-> summaries[i].mode,
         num_validation_questions |-> [na |-> ~summaries[i].num_validation_questions.some,
                                       v |-> summaries[i].num_validation_questions.n],
         notes |-> summaries[i].notes,
         run_timestamp |-> [na |-> FALSE,
                            s |-> IF timestamp_str # <<>> THEN timestamp_str ELSE NA],
         m_mean |-> [na |-> "m" \notin summaries[i].metrics,
                     v |-> IF "m" \in summaries[i].metrics THEN summaries[i].mean ELSE 0]]]

\* load_existing_csv: [some, rows], None when there is no file; read_csv
\* reads an empty cell and the cell N/A as NaN
LoadExistingCsv(f) ==
  [some |-> f.some,
   rows |-> [i \in 1..Len(f.rows) |->
               IF f.rows[i].run_timestamp.na \/ f.rows[i].run_timestamp.s \in {<<>>, NA}
               THEN [f.rows[i] EXCEPT !.run_timestamp = [na |-> TRUE, s |-> <<>>]]
               ELSE f.rows[i]]]

\* dataframe_to_summaries: the run block it builds has no
\* num_validation_questions, the count is a key of the summary itself
DataframeToSummaries(df) ==
  [i \in 1..Len(df) |->
     [Summary(df[i].evaluation_run_name,
              IF df[i].run_timestamp.na THEN <<>> ELSE df[i].run_timestamp.s,
              NoDatetime, df[i].m_mean.v)
        EXCEPT !.mode = df[i].mode,
               !.notes = df[i].notes,
               !.run_num_validation_questions = NoCount,
               !.num_validation_questions =
                  IF df[i].num_validation_questions.na THEN NoCount
                  ELSE [some |-> TRUE, n |-> df[i].num_validation_questions.v],
               !.metrics = IF df[i].m_mean.na THEN {} ELSE {"m"}]]

\* lines 857-863 of aggregate_local_results: the timestamp of the key of a
\* new summary
DedupTimestamp(s) ==
  IF s.run_timestamp = <<>> /\ s.file_mtime.some
  THEN IsoFormat(s.file_mtime) ELSE s.run_timestamp

\* lines 838-872 of aggregate_local_results: the existing summaries and
\* then the new ones whose (run name, timestamp) no existing one has
AllSummaries(existing_df, new_summaries) ==
  IF ~existing_df.some THEN new_summaries
  ELSE LET existing_summaries == DataframeToSummaries(existing_df.rows)
           existing_run_ids ==
             {<<existing_summaries[i].evaluation_run_name,
                existing_summaries[i].run_timestamp>> : i \in 1..Len(existing_summaries)}
       IN existing_summaries \o
            Kept(new_summaries,
                 {i \in 1..Len(new_summaries) :
                    <<new_summaries[i].evaluation_run_name, DedupTimestamp(new_summaries[i])>>
                      \notin existing_run_ids})

\* save_evaluation_csv: the table it writes and returns. sort_values is
\* numpy's quicksort, which for a table of fewer than 16 rows is an
\* insertion sort: rows with equal timestamps keep their order
SaveEvaluationCsv(summaries, existing_df) ==
  LET new_df == SummariesToDataframe(summaries)
      combined_df == existing_df.rows \o new_df
      TimestampBefore(r, q) ==
        \/ ~r.run_timestamp.na /\ q.run_timestamp.na
        \/ /\ ~r.run_timestamp.na /\ ~q.run_timestamp.na
           /\ TextLess(r.run_timestamp.s, q.run_timestamp.s)
  IN IF existing_df.some /\ Len(existing_df.rows) > 0
     THEN StableSort(
            Kept(combined_df,
                 {i \in 1..Len(combined_df) :
                    \A j \in (i + 1)..Len(combined_df) :
                      \/ combined_df[j].evaluation_run_name # combined_df[i].evaluation_run_name
                      \/ combined_df[j].run_timestamp # combined_df[i].run_timestamp}),
            TimestampBefore)
     ELSE new_df

\* the timestamps of the runs: an aware one, the same instant without an
\* offset, one second after midnight, the same instant with Z, datetime.min,
\* and texts that are no timestamp
T_aware == <<"2", "0", "2", "4", "-", "0", "1", "-", "0", "1", "T", "0", "0", ":", "0", "0",
           ":", "0", "0", "+", "0", "5", ":", "0", "0">>
T_naive == <<"2", "0", "2", "3", "-", "1", "2", "-", "3", "1", "T", "1", "9", ":", "0", "0",
           ":", "0", "0">>
T_third == <<"2", "0", "2", "4", "-", "0", "1", "-", "0", "1", "T", "0", "0", ":", "0", "0",
           ":", "0", "1">>
T_zulu == <<"2", "0", "2", "3", "-", "1", "2", "-", "3", "1", "T", "1", "9", ":", "0", "0",
          ":", "0", "0", "Z">>
T_min == <<"0", "0", "0", "1", "-", "0", "1", "-", "0", "1", "T", "0", "0", ":", "0", "0",
         ":", "0", "0">>
T_soon == <<"s", "o", "o", "n">>

\* the modification time collect_local_results reads for a summary.json
Mtime == Naive(2024, 1, 2, 0, 0, 0)

\* what collect_local_results finds in the results directory: summaries of
\* run_evaluation, and one that has its count as a key of the summary
ResultDirs ==
  { <<Summary(<<"a">>, T_naive, Mtime, 1)>>,
    <<Summary(<<"a">>, T_naive, Mtime, 2)>>,
    <<Summary(<<"a">>, T_naive, Mtime, 1), Summary(<<"a">>, T_naive, Mtime, 2)>>,
    <<Summary(<<"c">>, T_third, Mtime, 1), Summary(<<"b">>, T_aware, Mtime, 2),
      Summary(<<"a">>, T_naive, Mtime, 1)>>,
    <<Summary(<<"b">>, T_third, Mtime, 1), Summary(<<"a">>, T_third, Mtime, 2)>>,
    <<Summary(<<"z">>, T_soon, Mtime, 1)>>,
    <<Summary(<<"a">>, T_min, Mtime, 1)>>,
    <<Summary(<<"b">>, <<>>, Mtime, 1)>>,
    <<Summary(<<"c">>, NA, Mtime, 2)>>,
    <<Summary(<<"a">>, T_zulu, Mtime, 1)>>,
    <<Summary(<<"b">>, T_third, Mtime, 1),
      [Summary(<<"a">>, T_naive, Mtime, 0) EXCEPT !.metrics = {}]>>,
    <<[Summary(<<"c">>, T_third, Mtime, 0) EXCEPT !.metrics = {}]>>,
    <<Summary(<<"a">>, T_aware, Mtime, 1)>>,
    <<[Summary(<<"c">>, T_naive, Mtime, 1)
         EXCEPT !.run_num_validation_questions = NoCount,
                !.num_validation_questions = [some |-> TRUE, n |-> 3]]>> }

AggInit ==
  /\ pc = "Collect"
  /\ PipelineIdle
  /\ StatsIdle
  /\ AggIdle
  /\ ToolIdle

\* aggregate_local_results up to the call of save_evaluation_csv: lines
\* 826-874 (with no summary in the directory it returns at line 830)
MergeAndSave(dir) ==
  /\ pc = "Collect"
  /\ aggregations < MaxAggregations
  /\ dir # <<>>
  /\ aggregations' = aggregations + 1
  /\ results_dir' = dir
  /\ all_summaries' = AllSummaries(LoadExistingCsv(csv), dir)
  /\ table' = SaveEvaluationCsv(all_summaries', LoadExistingCsv(csv))
  /\ csv' = [some |-> TRUE, rows |-> table']
  /\ metric_data' = <<>>
  /\ ordered_runs' = <<>>
  /\ metric_tables' = <<>>
  /\ pc' = "Extract"
  /\ UNCHANGED <<error, callerVars, toolVars, judgeVars, statsVars>>

\* the call of extract_metric_data at line 877; with no point at all
\* aggregate_local_results returns at line 881
ExtractSeries ==
  /\ pc = "Extract"
  /\ metric_data' = ExtractMetricData(all_summaries).metric_data
  /\ ordered_runs' = ExtractMetricData(all_summaries).ordered_runs
  /\ pc' = IF metric_data' = <<>> THEN "Collect" ELSE "Tables"
  /\ UNCHANGED <<error, callerVars, toolVars, judgeVars, statsVars, csv, results_dir, all_summaries,
                 table, metric_tables, aggregations>>

\* the table of metric m, lines 920-929, and the return
CreateTables ==
  /\ pc = "Tables"
  /\ metric_tables' = CreateMetricTable(metric_data, ordered_runs,
                                        ExtractMetricData(all_summaries).run_id_to_display)
  /\ pc' = "Collect"
  /\ UNCHANGED <<error, callerVars, toolVars, judgeVars, statsVars, csv, results_dir, all_summaries,
                 table, metric_data, ordered_runs, aggregations>>

AggNext ==
  \/ \E dir \in ResultDirs : MergeAndSave(dir)
  \/ ExtractSeries
  \/ CreateTables

SpecAgg == AggInit /\ [][AggNext]_vars

\* ------------------------------------------------------------------------
\* aggregate_evals: fetch_github_actions_artifacts
\* ------------------------------------------------------------------------
MaxWorkflowRuns == 3

\* what GitHub answers for a workflow run: listing its artifacts fails, it
\* has no eval-results artifact, the download is answered 410, it is
\* answered with another error status, the archive cannot be extracted, a
\* summary.json of the archive cannot be parsed, or all goes well
RunKinds == {"list_fails", "no_artifact", "expired", "http_error", "bad_zip", "bad_summary", "ok"}
RunLists == UNION {[1..n -> RunKinds] : n \in 0..MaxWorkflowRuns}

\* line 117: the number of runs to check
RunsToCheck(n) == IF n * 2 > 20 THEN n * 2 ELSE 20

\* an iteration in which the directory of an expired artifact stays
ProcessRunKeepsExpired(kind) ==
  [dir |-> kind \in {"ok", "bad_summary", "expired"},
   counted |-> kind \in {"ok", "bad_summary"},
   raised |-> FALSE]

\* one iteration of the loop over the runs, lines 128-239: whether the
\* directory of the run is under temp_dir afterwards, whether the artifact
\* was counted, and whether an exception leaves the loop.
\* list_fails: get_artifacts raises, the handler of line 237 continues;
\* no_artifact: no artifact is named eval-results, nothing is made;
\* expired: the directory is made (line 145), the answer is 410 and the
\* directory is removed (lines 163-169); http_error: raise_for_status raises
\* and the handler of line 217 removes the directory; bad_zip: ZipFile
\* raises and the handler of line 227 removes the directory; bad_summary:
\* json.load raises, the handler of line 211 warns, the artifact is counted
ProcessRun(kind) ==
  LET artifact_found == kind \notin {"list_fails", "no_artifact"}
      made == artifact_found
      failed == kind \in {"expired", "http_error", "bad_zip"}
      removed == made /\ failed
  IN [dir |-> made /\ ~removed,
      counted |-> made /\ ~failed,
      raised |-> FALSE]

FetchInit ==
  /\ pc = "Fetch"
  /\ PipelineIdle
  /\ StatsIdle
  /\ AggIdle
  /\ ToolIdle

\* fetch_github_actions_artifacts(owner, repo, max_runs) up to the loop: the
\* runs to check and the empty temporary directory, lines 91-126
StartFetch ==
  /\ pc = "Fetch"
  /\ \E n \in 0..MaxWorkflowRuns, listed \in RunLists :
       /\ max_runs' = n
       /\ workflow_runs' = SubSeq(listed, 1, IF Len(listed) < RunsToCheck(n) THEN Len(listed)
                                             ELSE RunsToCheck(n))
  /\ runs_processed' = 0
  /\ artifact_count' = 0
  /\ temp_dir' = {}
  /\ pc' = "Sweep"
  /\ UNCHANGED <<error, callerVars, judgeVars, statsVars, aggVars, results_csv, client_calls>>

\* the next iteration of the loop
SweepRun ==
  /\ pc = "Sweep"
  /\ artifact_count < max_runs
  /\ runs_processed < Len(workflow_runs)
  /\ runs_processed' = runs_processed + 1
  /\ LET r == ProcessRun(workflow_runs[runs_processed'])
     IN /\ temp_dir' = IF r.dir THEN temp_dir \cup {runs_processed'} ELSE temp_dir
        /\ artifact_count' = IF r.counted THEN artifact_count + 1 ELSE artifact_count
        /\ pc' = IF r.raised THEN "FetchFailed" ELSE "Sweep"
  /\ UNCHANGED <<error, callerVars, judgeVars, statsVars, aggVars, max_runs, workflow_runs,
                 results_csv, client_calls>>

\* the loop ends at line 129 or with the last run; temp_dir is returned
FetchReturns ==
  /\ pc = "Sweep"
  /\ artifact_count >= max_runs \/ runs_processed = Len(workflow_runs)
  /\ pc' = "Fetched"
  /\ UNCHANGED <<error, callerVars, judgeVars, statsVars, aggVars, fetchVars, results_csv,
                 client_calls>>

FetchNext ==
  \/ StartFetch
  \/ SweepRun
  \/ FetchReturns

SpecFetch == FetchInit /\ [][FetchNext]_vars

\* ------------------------------------------------------------------------
\* client: the generate call of the two backends
\* ------------------------------------------------------------------------
MaxGenerateCalls == 2

K_statusCode == <<"s", "t", "a", "t", "u", "s", "C", "o", "d", "e">>
K_body == <<"b", "o", "d", "y">>
K_answer == <<"a", "n", "s", "w", "e", "r">>
K_sources == <<"s", "o", "u", "r", "c", "e", "s">>
K_chunk == <<"c", "h", "u", "n", "k">>
K_error == <<"e", "r", "r", "o", "r">>

\* what the handler of the rag app returns, or the payload of the Lambda
\* invocation decodes to: statusCode 200 with the response as json text,
\* 500 with an error object as json text, 500 with a text that is no json,
\* 404 with the error object itself, the response without an envelope,
\* 200 with the response itself, and 500 without a body
BackendResponses ==
  { JDict(<<K_statusCode, K_body>>,
          <<JNum(200),
            JStr(<<"{", DQ, "a", "n", "s", "w", "e", "r", DQ, ":", " ", DQ, "a", DQ, COMMA,
                 " ", DQ, "s", "o", "u", "r", "c", "e", "s", DQ, ":", " ", "[", "{", DQ, "c",
                 "h", "u", "n", "k", DQ, ":", " ", DQ, "c", DQ, "}", "]", "}">>)>>),
    JDict(<<K_statusCode, K_body>>,
          <<JNum(500), JStr(<<"{", DQ, "e", "r", "r", "o", "r", DQ, ":", " ", DQ, "x", DQ,
                              "}">>)>>),
    JDict(<<K_statusCode, K_body>>, <<JNum(500), JStr(<<"o", "o", "p", "s">>)>>),
    JDict(<<K_statusCode, K_body>>,
          <<JNum(404), JDict(<<K_error>>, <<JStr(<<"x">>)>>)>>),
    JDict(<<K_answer, K_sources>>, <<JStr(<<"a">>), JList(<<>>)>>),
    JDict(<<K_statusCode, K_body>>,
          <<JNum(200), JDict(<<K_answer>>, <<JStr(<<"a">>)>>)>>),
    JDict(<<K_statusCode>>, <<JNum(500)>>) }

HasKey(d, key) == \E k \in 1..Len(d.k) : d.k[k] = key

\* generate raised exc
GenerateRaised(exc) ==
  [exc |-> exc, answer |-> JNull, contexts |-> JList(<<>>), raw |-> JNull]

\* lines 78-89 of client.py (and 139-152): the output made from the body
ChatOutput(body) ==
  IF body.t # "dict" THEN GenerateRaised("AttributeError")
  ELSE LET answer == Get(body, K_answer, JStr(<<>>))
           sources == Get(body, K_sources, JList(<<>>))
           dicts == IF sources.t = "list"
                    THEN SelectSeq(sources.items, LAMBDA source : source.t = "dict")
                    ELSE <<>>
       IN IF sources.t \notin {"list", "str", "dict"} THEN GenerateRaised("TypeError")
          ELSE [exc |-> "",
                answer |-> answer,
                contexts |-> JList([i \in 1..Len(dicts) |-> Get(dicts[i], K_chunk, JStr(<<>>))]),
                raw |-> body]

\* LocalRagClient.generate for the handler returning resp, lines 45-89:
\* _call takes the body out of the envelope (lines 62-74) whatever the
\* statusCode is
LocalGenerate(resp) ==
  IF resp.t = "dict" /\ HasKey(resp, K_body)
  THEN IF Get(resp, K_body, JNull).t = "str"
       THEN IF JsonLoads(Get(resp, K_body, JNull).s).ok
            THEN ChatOutput(JsonLoads(Get(resp, K_body, JNull).s).val)
            ELSE GenerateRaised("JSONDecodeError")
       ELSE ChatOutput(Get(resp, K_body, JNull))
  ELSE ChatOutput(resp)

\* LambdaRagClient.generate for the payload decoding to resp, lines 97-152
LambdaGenerate(resp) ==
  IF resp.t = "dict" /\ HasKey(resp, K_statusCode)
  THEN IF Get(resp, K_statusCode, JNull) # JNum(200) THEN GenerateRaised("RuntimeError")
       ELSE IF Get(resp, K_body, JNull).t = "str"
       THEN IF JsonLoads(Get(resp, K_body, JNull).s).ok
            THEN ChatOutput(JsonLoads(Get(resp, K_body, JNull).s).val)
            ELSE GenerateRaised("JSONDecodeError")
       ELSE ChatOutput(Get(resp, K_body, JDict(<<>>, <<>>)))
  ELSE ChatOutput(resp)

ClientInit ==
  /\ pc = "Client"
  /\ PipelineIdle
  /\ StatsIdle
  /\ AggIdle
  /\ ToolIdle

\* await client.generate(sample) of a LocalRagClient
LocalGenerateCall(resp) ==
  /\ pc = "Client"
  /\ Len(client_calls) < MaxGenerateCalls
  /\ client_calls' = Append(client_calls,
                            [backend |-> "local", resp |-> resp, out |-> LocalGenerate(resp)])
  /\ UNCHANGED <<pc, error, callerVars, judgeVars, statsVars, aggVars, fetchVars, results_csv>>

\* await client.generate(sample) of a LambdaRagClient
LambdaGenerateCall(resp) ==
  /\ pc = "Client"
  /\ Len(client_calls) < MaxGenerateCalls
  /\ client_calls' = Append(client_calls,
                            [backend |-> "lambda", resp |-> resp, out |-> LambdaGenerate(resp)])
  /\ UNCHANGED <<pc, error, callerVars, judgeVars, statsVars, aggVars, fetchVars, results_csv>>

ClientNext ==
  \/ \E resp \in BackendResponses : LocalGenerateCall(resp)
  \/ \E resp \in BackendResponses : LambdaGenerateCall(resp)

SpecClient == ClientInit /\ [][ClientNext]_vars

\* ------------------------------------------------------------------------
\* Properties
\* ------------------------------------------------------------------------
\* the steps of run_evaluation from the return of generate_batch to the
\* outputs
AfterGeneration ==
  {"Merge", "PersistCache", "BuildOutputs", "BuildMetrics", "RunMetrics",
   "Aggregate", "AttachRunMetadata", "Write"}

\* C1: what generate_batch returns is aligned index for index with its
\* input samples: result[i] is the output of generate(samples[i]), whatever
\* the order in which the calls returned
OutputsAligned ==
  pc = "Merge" =>
    /\ Len(new_model_outputs) = Len(missing_samples)
    /\ \A i \in 1..Len(missing_samples) :
         new_model_outputs[i] = GenerateOutput(missing_samples[i])

\* generate_batch has returned although the call of the second sample
\* returned before the call of the first, their outputs being different
AlignedAfterReversedCompletion ==
  /\ pc = "Merge"
  /\ Len(doneOrder) = 2
  /\ doneOrder[1] = 2
  /\ GenerateOutput(missing_samples[1]) # GenerateOutput(missing_samples[2])

\* C2: one task per sample is created, and at every moment the generate
\* calls started and not finished are at most max_concurrency, each holding
\* a permit of the semaphore
ConcurrencyCapped ==
  /\ Cardinality(InFlight) <= max_concurrency
  /\ pc = "Generate" =>
       /\ Len(tasks) = Len(missing_samples)
       /\ sem = max_concurrency - Cardinality(InFlight)

\* the cap is reached: every permit is held and a task waits for one
CapReachedTaskWaiting ==
  /\ pc = "Generate"
  /\ max_concurrency >= 1
  /\ Cardinality(InFlight) = max_concurrency
  /\ \E i \in 1..Len(tasks) : tasks[i] = "pending"

\* C3: once a generate call has raised, the run does not go on to another
\* phase: it ends with the exception, no call is repeated, the cache file
\* is as it was when the run started and no output is written or uploaded
GenerationFailureWritesNothing ==
  gatherExc =>
    /\ pc \in {"Generate", "Failed"}
    /\ pc = "Failed" => error = "GenerationError"
    /\ \A i \in 1..Len(genCalls) : genCalls[i] <= 1
    /\ file = file0
    /\ written = {}
    /\ ~uploaded

\* a persistence-enabled run has ended with the exception of one generate
\* call after the call of a sibling sample had returned
FailedAfterSiblingSucceeded ==
  /\ pc = "Failed"
  /\ error = "GenerationError"
  /\ persist_rag_outputs
  /\ doneOrder # <<>>

\* C4: generate is never called for a sample whose id is in the loaded
\* cache and never twice for a sample; when generate_batch has returned it
\* has been called exactly once for every sample whose id is not in the
\* loaded cache, which is every sample when persistence is disabled or the
\* cache file does not exist
GeneratesExactlyTheMissing ==
  /\ \A i \in 1..Len(genCalls) :
       /\ genCalls[i] <= 1
       /\ (loaded.some /\ samples[i].sample_id \in loaded.ids) => genCalls[i] = 0
  /\ pc \in AfterGeneration =>
       /\ \A i \in 1..Len(samples) :
            genCalls[i] = IF loaded.some /\ samples[i].sample_id \in loaded.ids THEN 0 ELSE 1
       /\ (~persist_rag_outputs \/ ~file0.exists) =>
            \A i \in 1..Len(samples) : genCalls[i] = 1

\* generate_batch has returned in a run that found one sample in the cache
\* and generated another
PartlyCachedRunGenerated ==
  /\ pc = "Merge"
  /\ loaded.some
  /\ \E i, j \in 1..Len(samples) : genCalls[i] = 0 /\ genCalls[j] = 1

\* C5: a run that repeats a completed persistence-enabled run on the same
\* samples makes no generate call and leaves the cache file as it was
RerunIdempotent ==
  rerun =>
    /\ \A i \in 1..Len(genCalls) : genCalls[i] = 0
    /\ file = file0

\* C6: after save_rag_results and load_rag_results the mapping holds, for
\* every sample, an output equal to the saved one
RoundTrip ==
  pc = "CacheLoaded" =>
    /\ persisted_results.some
    /\ \A i \in 1..Len(samples) :
         /\ samples[i].sample_id \in DOMAIN persisted_results.map
         /\ persisted_results.map[samples[i].sample_id]
              = MergeResults(NoMap, samples, model_outputs, 1)[samples[i].sample_id]

\* C7: when metric evaluation starts, and as long as records of a metric
\* exist, model_outputs holds one output per sample, the output stored
\* under the sample's id, which is the generated one for a sample generated
\* in this run
OutputsCoverSamples ==
  (pc = "RunMetrics" \/ per_sample_results # <<>>) =>
    /\ Len(model_outputs) = Len(samples)
    /\ \A i \in 1..Len(samples) :
         /\ samples[i].sample_id \in DOMAIN persisted_results.map
         /\ model_outputs[i] = persisted_results.map[samples[i].sample_id]
         /\ genCalls[i] = 1 => model_outputs[i] = GenerateOutput(samples[i])

\* metric evaluation starts on two samples, the first taken from the cache
\* and the second generated in this run
MetricsStartOnCachedAndFresh ==
  /\ pc = "RunMetrics"
  /\ genCalls = <<0, 1>>

\* the phase of the pipeline a step of run_evaluation belongs to
Phase(p) ==
  CASE p = "LoadData" -> 1
    [] p = "ResolveCache" -> 2
    [] p \in {"BuildClient", "Generate", "Merge"} -> 3
    [] p = "PersistCache" -> 4
    [] p \in {"BuildOutputs", "BuildMetrics", "RunMetrics"} -> 5
    [] p = "Aggregate" -> 6
    [] p = "AttachRunMetadata" -> 7
    [] p = "Write" -> 8
    [] OTHER -> 9

\* C8: a step of run_evaluation leads to the same or a later phase of
\* LoadData, ResolveCache, Generate, PersistCache, RunMetrics, Aggregate,
\* AttachRunMetadata, Write, Done, or ends the run with an exception; and
\* when a metric can start generate_batch has returned, every missing
\* sample has its generated output in persisted_results, and the cache
\* file holds the merged results if persistence is enabled
PhasesInOrder ==
  /\ [][(pc \notin {"Idle", "Done", "Failed"} /\ pc' # "Failed")
          => Phase(pc') >= Phase(pc)]_vars
  /\ []((pc = "RunMetrics" \/ judgeCalled) =>
          /\ tasks = <<>>
          /\ \A j \in 1..Len(missing_samples) :
               /\ missing_samples[j].sample_id \in DOMAIN persisted_results.map
               /\ persisted_results.map[missing_samples[j].sample_id]
                    = GenerateOutput(missing_samples[j])
          /\ (persist_rag_outputs /\ missing_samples # <<>>) =>
               file = SaveRagResults(samples, persisted_results.map))

\* metric evaluation starts in a persistence-enabled run that generated
\* two samples
MetricsStartAfterGenerationAndSave ==
  /\ pc = "RunMetrics"
  /\ persist_rag_outputs
  /\ Len(missing_samples) = 2
  /\ file # file0

\* C9: an eval csv without the question column or without the reference
\* column ends the run with load_eval_dataframe's error before a client
\* is built and before any generate call
MissingColumnFailsFirst ==
  columns # "ok" =>
    /\ pc = "Failed"
    /\ error = "ValueError: Missing column"
    /\ ~client_built
    /\ rag_app = "unread"
    /\ \A i \in 1..Len(genCalls) : genCalls[i] = 0

\* a run on an eval csv without the reference column has failed
FailedOnMissingReferenceColumn ==
  /\ pc = "Failed"
  /\ columns = "no_reference"

\* C10: a run that ends with a configuration error (a missing column, no
\* backend selector, a metric enabled without judge_model) has issued no
\* generate call and no judge call
ConfigErrorsRaisedFirst ==
  error \in {"ValueError: Missing column", "ValueError: rag_app", "ValueError: judge_model"} =>
    /\ \A i \in 1..Len(genCalls) : genCalls[i] = 0
    /\ ~judgeCalled

\* C11: whatever the judge model answers, evaluate does not raise: no
\* _grade_one task ends with an exception, and evaluate returns one record
\* per sample
EvaluateNeverRaises ==
  /\ pc # "EvaluateRaised"
  /\ \A s \in 1..Len(grade) : grade[s].at # "raised"
  /\ pc = "Returned" => Len(records) = Len(samples)

\* C12: BinaryCorrectnessMetric takes the object of a fenced block first
\* and otherwise the brace-delimited part of the text: the fenced block
\* with score 1 and explanation "ok" gives score 1.0 and that explanation,
\* a fenced block after an object gives the score of the block, an object
\* in prose gives the score of the object, and "I cannot answer" gives
\* score 0.0 with the fallback explanation, which is not empty
BinaryLocatesJson ==
  \A s \in 1..Len(grade) :
    (metric_name = BinaryName /\ grade[s].at = "returned") =>
      LET rec == grade[s].out.rec
          explanation == rec.ai_evaluation_explanation.explanation
      IN /\ grade[s].response = JStr(<<TICK, TICK, TICK, "j", "s", "o", "n", LF, "{", DQ, "s", "c", "o", "r", "e",
              DQ, ":", " ", "1", COMMA, " ", DQ, "e", "x", "p", "l", "a", "n", "a", "t",
              "i", "o", "n", DQ, ":", " ", DQ, "o", "k", DQ, "}", LF, TICK, TICK, TICK>>)
            => rec.score = Ratio(1, 1) /\ explanation = JStr(<<"o", "k">>)
         /\ grade[s].response = JStr(<<"{", DQ, "s", "c", "o", "r", "e", DQ, ":", " ", "0", "}", "?", " ", TICK,
              TICK, TICK, "{", DQ, "s", "c", "o", "r", "e", DQ, ":", " ", "1", "}", TICK,
              TICK, TICK>>)
            => rec.score = Ratio(1, 1)
         /\ grade[s].response = JStr(<<"N", "o", ":", " ", "{", DQ, "s", "c", "o", "r", "e", DQ, ":", " ", "0", "}",
              " ", "i", "s", " ", "m", "y", " ", "g", "r", "a", "d", "e">>)
            => rec.score = Ratio(0, 1) /\ explanation = JStr(<<>>)
         /\ grade[s].response = JStr(<<"I", " ", "c", "a", "n", "n", "o", "t", " ", "a", "n", "s", "w", "e", "r">>)
            => /\ rec.score = Ratio(0, 1)
               /\ explanation.t = "str"
               /\ explanation.s # <<>>
               /\ StartsWith(explanation.s, 1, FailedToParse)

\* evaluate returned the records of a sample graded 1.0 from a fenced block
\* and of a sample the judge refused to grade
FencedAndRefusedGraded ==
  /\ pc = "Returned"
  /\ metric_name = BinaryName
  /\ Len(records) = 2
  /\ grade[1].response = JStr(<<TICK, TICK, TICK, "j", "s", "o", "n", LF, "{", DQ, "s", "c", "o", "r", "e",
              DQ, ":", " ", "1", COMMA, " ", DQ, "e", "x", "p", "l", "a", "n", "a", "t",
              "i", "o", "n", DQ, ":", " ", DQ, "o", "k", DQ, "}", LF, TICK, TICK, TICK>>)
  /\ records[1].score = Ratio(1, 1)
  /\ grade[2].response = JStr(<<"I", " ", "c", "a", "n", "n", "o", "t", " ", "a", "n", "s", "w", "e", "r">>)
  /\ records[2].score = Ratio(0, 1)

\* C13: in AtomicCorrectnessMetric a sample whose extraction gave no fact
\* (the response does not parse, or its list is empty) gets the record with
\* score 0.0 and the explanation of the extraction failure, and no
\* verification call is issued for it
NoFactsScoreZeroNoChecks ==
  \A s \in 1..Len(grade) :
    (metric_name = AtomicName /\ grade[s].at = "returned") =>
      LET rec == grade[s].out.rec
      IN /\ grade[s].response \in {JStr(<<"I", " ", "c", "a", "n", "n", "o", "t", " ", "a", "n", "s", "w", "e", "r">>),
                                   JStr(<<"{", DQ, "a", "t", "o", "m", "i", "c", "_", "f", "a", "c", "t", "s", DQ, ":",
              " ", "[", "]", "}">>)}
            => rec = NoFactsRecord(samples[s])
         /\ rec.ai_evaluation_explanation.atomic_facts_count = 0
            => /\ rec.score.num = 0
               /\ rec.ai_evaluation_explanation.explanation
                    = JStr(<<"F", "a", "i", "l", "e", "d", " ", "t", "o", " ", "e", "x", "t", "r",
                      "a", "c", "t", " ", "a", "t", "o", "m", "i", "c", " ", "f", "a", "c",
                      "t", "s", " ", "f", "r", "o", "m", " ", "r", "e", "f", "e", "r", "e",
                      "n", "c", "e", " ", "a", "n", "s", "w", "e", "r">>)
               /\ grade[s].check_calls = <<>>
               /\ grade[s].calls = 1

\* evaluate returned, the first sample without facts after a response that
\* does not parse, the second sample with verified facts
RefusedExtractionReturned ==
  /\ pc = "Returned"
  /\ metric_name = AtomicName
  /\ Len(records) = 2
  /\ grade[1].response = JStr(<<"I", " ", "c", "a", "n", "n", "o", "t", " ", "a", "n", "s", "w", "e", "r">>)
  /\ records[1] = NoFactsRecord(samples[1])
  /\ grade[1].check_calls = <<>>
  /\ grade[2].check_calls # <<>>

\* C14: in AtomicCorrectnessMetric no verification call is issued before the
\* extraction call of the sample returned; a sample with total >= 1 facts
\* got one verification call per fact, its atomic_facts_count is total, its
\* atomic_facts_found the number of verdicts with found = true, and its
\* score found / total, between 0 and 1 (2 of 3: 0.6667)
ScoreIsFoundOverTotal ==
  \A s \in 1..Len(grade) :
    /\ grade[s].at \in {"created", "extract"} => grade[s].check_calls = <<>>
    /\ (grade[s].at = "returned"
        /\ grade[s].response = JStr(<<TICK, TICK, TICK, LF, "{", DQ, "a", "t", "o", "m", "i", "c",
                               "_", "f", "a", "c", "t", "s", DQ, ":", " ", "[", DQ, "f",
                               DQ, COMMA, " ", DQ, "g", DQ, COMMA, " ", DQ, "h", DQ, "]",
                               "}", LF, TICK, TICK, TICK>>))
       => grade[s].out.rec.ai_evaluation_explanation.atomic_facts_count = 3
    /\ (metric_name = AtomicName /\ grade[s].at = "returned"
        /\ grade[s].out.rec.ai_evaluation_explanation.atomic_facts_count >= 1) =>
         LET rec == grade[s].out.rec
             total == rec.ai_evaluation_explanation.atomic_facts_count
             evals == rec.ai_evaluation_explanation.fact_evaluations
             found == Cardinality({i \in 1..Len(evals) : evals[i].found})
         IN /\ grade[s].calls = 1
            /\ grade[s].check_calls = [f \in 1..total |-> 1]
            /\ Len(evals) = total
            /\ rec.ai_evaluation_explanation.atomic_facts_found = found
            /\ rec.score.num * total = found * rec.score.den
            /\ rec.score.den > 0
            /\ 0 <= rec.score.num /\ rec.score.num <= rec.score.den
            /\ (total = 3 /\ found = 2)
               => (10000 * rec.score.num + rec.score.den \div 2) \div rec.score.den = 6667

\* evaluate returned the record of a sample with two of three facts found
TwoOfThreeFound ==
  /\ pc = "Returned"
  /\ metric_name = AtomicName
  /\ \E s \in 1..Len(records) :
       /\ records[s].ai_evaluation_explanation.atomic_facts_count = 3
       /\ records[s].ai_evaluation_explanation.atomic_facts_found = 2
       /\ records[s].score = Ratio(2, 3)
       /\ grade[s].check_calls = <<1, 1, 1>>

\* C15: fact_evaluations of a record of AtomicCorrectnessMetric holds one
\* verdict per extracted fact in the order of extraction: entry i has
\* fact_index i - 1 and is the verdict on fact i, in whatever order the
\* verification calls returned
FactEvaluationsInExtractionOrder ==
  \A s \in 1..Len(grade) :
    (metric_name = AtomicName /\ grade[s].at = "returned"
     /\ grade[s].out.rec.ai_evaluation_explanation.atomic_facts_count >= 1) =>
      LET evals == grade[s].out.rec.ai_evaluation_explanation.fact_evaluations
          facts == <<JStr(<<"f">>), JStr(<<"g">>), JStr(<<"h">>)>>
      IN /\ Len(evals) = Len(grade[s].completed)
         /\ \A i \in 1..Len(evals) :
              /\ evals[i].fact_index = i - 1
              /\ evals[i].atomic_fact = facts[i]

\* the record of a sample is returned whose three checks returned in the
\* reverse of the order of extraction, with different verdicts
ReturnedAfterReversedChecks ==
  \E s \in 1..Len(grade) :
    /\ metric_name = AtomicName
    /\ grade[s].at = "returned"
    /\ grade[s].completed = <<3, 2, 1>>
    /\ grade[s].out.rec.ai_evaluation_explanation.fact_evaluations[1].found
    /\ ~grade[s].out.rec.ai_evaluation_explanation.fact_evaluations[3].found

SameScoresSameInterval ==
  \A j, k \in 1..Len(aggregated) :
    aggregated[j].scores = aggregated[k].scores =>
      /\ aggregated[j].stats.ci_lower = aggregated[k].stats.ci_lower
      /\ aggregated[j].stats.ci_upper = aggregated[k].stats.ci_upper

\* the same two scores were aggregated before and after another list, and
\* the resamples of the first call did not all have the same mean
SameScoresAggregatedTwice ==
  /\ Len(aggregated) = 3
  /\ Len(aggregated[1].scores) = 2
  /\ aggregated[3].scores = aggregated[1].scores
  /\ aggregated[2].scores # aggregated[1].scores
  /\ aggregated[2].scores # <<>>
  /\ aggregated[1].stats.ci_lower # aggregated[1].stats.ci_upper

\* C18: when aggregate_local_results is given two runs with the same
\* (run name, run timestamp) and different metric values, be the earlier
\* one a row of the existing table or a summary of the same directory, the
\* table it saves has exactly one row for that key, and the row holds the
\* values supplied last
MergedTableKeepsLaterValues ==
  [][(pc = "Collect" /\ pc' = "Extract") =>
       LET Text(cell) == IF cell.na THEN NA ELSE cell.s
           new_df == SummariesToDataframe(results_dir')
           supplied == csv.rows \o new_df
       IN \A i, j \in 1..Len(supplied) :
            ( /\ i < j
              /\ supplied[i].evaluation_run_name = supplied[j].evaluation_run_name
              /\ Text(supplied[i].run_timestamp) = Text(supplied[j].run_timestamp)
              /\ supplied[i].m_mean # supplied[j].m_mean
              /\ \A k \in (j + 1)..Len(supplied) :
                   \/ supplied[k].evaluation_run_name # supplied[j].evaluation_run_name
                   \/ Text(supplied[k].run_timestamp) # Text(supplied[j].run_timestamp) )
            => LET rows == {r \in 1..Len(table') :
                              /\ table'[r].evaluation_run_name = supplied[j].evaluation_run_name
                              /\ Text(table'[r].run_timestamp) = Text(supplied[j].run_timestamp)}
               IN /\ Cardinality(rows) = 1
                  /\ \A r \in rows : table'[r].m_mean = supplied[j].m_mean
    ]_vars

\* C19: the run stamped 2024-01-01T00:00:00+05:00 and the run stamped
\* 2023-12-31T19:00:00 get the same timestamp, 2023-12-31 19:00:00 without
\* tzinfo, and their points and run ids come before those of a run stamped
\* 2024-01-01T00:00:01; every timestamp extract_metric_data and
\* get_summary_timestamp hand to a comparison is without tzinfo, an aware
\* one having been moved to UTC first
AwareAndNaiveNormalized ==
  LET points == Points(all_summaries)
      Index(seq, x) == {a \in 1..Len(seq) : seq[a] = x}
      run_ids == [a \in 1..Len(metric_data) |-> metric_data[a].run_id]
  IN /\ \A i \in 1..Len(all_summaries) :
          /\ ~points[i].timestamp.aware
          /\ ~GetSummaryTimestamp(all_summaries[i]).aware
          /\ all_summaries[i].run_timestamp \in {T_aware, T_naive, T_zulu} =>
               /\ points[i].timestamp = Naive(2023, 12, 31, 19, 0, 0)
               /\ GetSummaryTimestamp(all_summaries[i]) = Naive(2023, 12, 31, 19, 0, 0)
          /\ all_summaries[i].run_timestamp = T_third =>
               /\ points[i].timestamp = Naive(2024, 1, 1, 0, 0, 1)
               /\ GetSummaryTimestamp(all_summaries[i]) = Naive(2024, 1, 1, 0, 0, 1)
     /\ \A a \in 1..Len(metric_data) : ~metric_data[a].timestamp.aware
     /\ \A i, j \in 1..Len(all_summaries) :
          ( /\ pc = "Collect"
            /\ all_summaries[i].run_timestamp \in {T_aware, T_naive}
            /\ all_summaries[j].run_timestamp = T_third )
          => /\ \A a \in Index(run_ids, points[i].run_id) :
                  \A b \in Index(run_ids, points[j].run_id) : a < b
             /\ \A a \in Index(ordered_runs, points[i].run_id) :
                  \A b \in Index(ordered_runs, points[j].run_id) : a < b

\* extract_metric_data returned the series of the three runs
ThreeRunsOrdered ==
  /\ pc = "Collect"
  /\ Len(metric_data) = 3
  /\ Len(ordered_runs) = 3
  /\ \A t \in {T_aware, T_naive, T_third} :
       \E i \in 1..Len(all_summaries) : all_summaries[i].run_timestamp = t

\* C20 as stated: the points of a metric and the ordered runs are sorted
\* ascending by (timestamp, run id), and every run without a timestamp
\* comes before every run that has one
UntimedRunsBeforeAllTimed ==
  pc = "Collect" =>
    LET Ts(p) == IF p.timestamp.some THEN p.timestamp ELSE DatetimeMin
        Ascending(p, q) ==
          \/ DatetimeLess(Ts(p), Ts(q))
          \/ Ts(p) = Ts(q) /\ (p.run_id = q.run_id \/ TextLess(p.run_id, q.run_id))
        Point(id) == CHOOSE p \in {Points(all_summaries)[a] : a \in 1..Len(all_summaries)} :
                       p.run_id = id
    IN /\ \A a, b \in 1..Len(metric_data) :
            a < b => /\ Ascending(metric_data[a], metric_data[b])
                     /\ ~(metric_data[a].timestamp.some /\ ~metric_data[b].timestamp.some)
       /\ \A a, b \in 1..Len(ordered_runs) :
            a < b => /\ Ascending(Point(ordered_runs[a]), Point(ordered_runs[b]))
                     /\ ~(Point(ordered_runs[a]).timestamp.some
                            /\ ~Point(ordered_runs[b]).timestamp.some)

\* C20: the points of a metric and the ordered runs are sorted ascending
\* by (timestamp, run id), a run without a timestamp counting as stamped
\* datetime.min: it comes before every run stamped later than datetime.min
SeriesSortedByTimestampThenRunId ==
  pc = "Collect" =>
    LET Ts(p) == IF p.timestamp.some THEN p.timestamp ELSE DatetimeMin
        Ascending(p, q) ==
          \/ DatetimeLess(Ts(p), Ts(q))
          \/ Ts(p) = Ts(q) /\ (p.run_id = q.run_id \/ TextLess(p.run_id, q.run_id))
        Point(id) == CHOOSE p \in {Points(all_summaries)[a] : a \in 1..Len(all_summaries)} :
                       p.run_id = id
    IN /\ \A a, b \in 1..Len(metric_data) :
            a < b => /\ Ascending(metric_data[a], metric_data[b])
                     /\ ~( /\ metric_data[a].timestamp.some
                           /\ DatetimeLess(DatetimeMin, metric_data[a].timestamp)
                           /\ ~metric_data[b].timestamp.some )
       /\ \A a, b \in 1..Len(ordered_runs) :
            a < b => /\ Ascending(Point(ordered_runs[a]), Point(ordered_runs[b]))
                     /\ ~( /\ Point(ordered_runs[a]).timestamp.some
                           /\ DatetimeLess(DatetimeMin, Point(ordered_runs[a]).timestamp)
                           /\ ~Point(ordered_runs[b]).timestamp.some )
       /\ Len(ordered_runs)
            = Cardinality({Points(all_summaries)[a].run_id : a \in 1..Len(all_summaries)})

\* a series with a run that has no timestamp and runs that have one
UntimedAndTimedRunsOrdered ==
  /\ pc = "Collect"
  /\ Len(ordered_runs) >= 3
  /\ \E a \in 1..Len(metric_data) : ~metric_data[a].timestamp.some
  /\ \E a, b \in 1..Len(metric_data) :
       /\ metric_data[a].timestamp.some
       /\ metric_data[b].timestamp.some
       /\ metric_data[a].timestamp # metric_data[b].timestamp

\* C21: the table of a metric has one row per run of the ordered run
\* list, in that order; the row shows the run's name, the run's timestamp
\* and the run's value for the metric, and a cell is N/A only where the
\* run has no timestamp, respectively no value for the metric
TableRowPerRunWithItsCells ==
  (pc = "Collect" /\ metric_tables # <<>>) =>
    LET points == Points(all_summaries)
        Of(id) == {k \in 1..Len(points) : points[k].run_id = id}
    IN /\ Len(metric_tables) = Len(ordered_runs)
       /\ \A i \in 1..Len(ordered_runs) :
            /\ \E k \in Of(ordered_runs[i]) :
                 metric_tables[i].run_name_only = all_summaries[k].evaluation_run_name
            /\ IF \E k \in Of(ordered_runs[i]) : points[k].timestamp.some
               THEN \E k \in Of(ordered_runs[i]) :
                      /\ points[k].timestamp.some
                      /\ metric_tables[i].timestamp_str = Strftime(points[k].timestamp)
               ELSE metric_tables[i].timestamp_str = NA
            /\ IF \E k \in Of(ordered_runs[i]) : "m" \in points[k].metrics
               THEN \E k \in Of(ordered_runs[i]) :
                      /\ "m" \in points[k].metrics
                      /\ metric_tables[i].value
                           = <<Digits[points[k].mean_value + 1], ".", "0", "0", "0", "0">>
               ELSE metric_tables[i].value = NA


\* C24: every run of the results directory has a row in the merged table
\* with the metadata of the run block of its summary: name, mode,
\* timestamp, number of validation questions and notes
RowCarriesRunBlockMetadata ==
  (aggregations > 0) =>
    \A i \in 1..Len(results_dir) :
      \E k \in 1..Len(table) :
        /\ table[k].evaluation_run_name = results_dir[i].evaluation_run_name
        /\ table[k].mode = results_dir[i].mode
        /\ table[k].notes = results_dir[i].notes
        /\ results_dir[i].run_timestamp # <<>>
             => table[k].run_timestamp = [na |-> FALSE, s |-> results_dir[i].run_timestamp]
        /\ results_dir[i].run_num_validation_questions.some
             => table[k].num_validation_questions
                  = [na |-> FALSE, v |-> results_dir[i].run_num_validation_questions.n]

\* what a timestamp text denotes: the normalized datetime (datetime.min for
\* no timestamp), or the text itself where it is no timestamp
Resolved(timestamp_str) ==
  LET parsed == FromIsoFormat(Flatten([i \in 1..Len(timestamp_str) |->
                  IF timestamp_str[i] = "Z" THEN <<"+", "0", "0", ":", "0", "0">>
                  ELSE <<timestamp_str[i]>>]))
  IN IF timestamp_str \in {<<>>, NA} THEN [dt |-> DatetimeMin, raw |-> <<>>]
     ELSE IF parsed.exc = "" THEN [dt |-> NormalizeDatetime(parsed.dt), raw |-> <<>>]
     ELSE [dt |-> DatetimeMin, raw |-> timestamp_str]

\* C25: after a merge with an existing table no two rows of the merged
\* table have the same run name and timestamps that denote the same instant
SameInstantSameRow ==
  (aggregations >= 2) =>
    \A i, j \in 1..Len(table) :
      (/\ i < j
       /\ table[i].evaluation_run_name = table[j].evaluation_run_name
       /\ ~table[i].run_timestamp.na /\ ~table[j].run_timestamp.na
       /\ Resolved(table[i].run_timestamp.s).raw = <<>>
       /\ Resolved(table[j].run_timestamp.s).raw = <<>>)
        => Resolved(table[i].run_timestamp.s) # Resolved(table[j].run_timestamp.s)

\* C26: the time series, the report ordering, the row of the merged table
\* and the dedup key resolve the same timestamp for each run of the
\* results directory
ConsumersResolveSameTimestamp ==
  (aggregations > 0) =>
    \A i \in 1..Len(results_dir) :
      LET s == results_dir[i]
          series == [dt |-> IF RunTimestamp(s).some THEN RunTimestamp(s) ELSE DatetimeMin,
                     raw |-> <<>>]
          ordering == [dt |-> GetSummaryTimestamp(s), raw |-> <<>>]
          row == Resolved(SummariesToDataframe(<<s>>)[1].run_timestamp.s)
          key == Resolved(DedupTimestamp(s))
      IN series = ordering /\ ordering = row /\ row = key

\* C27: a series has at most one point per run id, and the run id of each
\* of its points is exactly once in the ordered run list
OnePointPerRunId ==
  (metric_data # <<>>) =>
    /\ \A i, j \in 1..Len(metric_data) :
         i < j => metric_data[i].run_id # metric_data[j].run_id
    /\ \A i \in 1..Len(metric_data) :
         Cardinality({k \in 1..Len(ordered_runs) : ordered_runs[k] = metric_data[i].run_id}) = 1

\* C22: in the sweep over the workflow runs no failed download leaves a
\* directory or is counted, no failure ends the sweep, at most max_runs
\* artifacts are downloaded, and the sweep ends only with max_runs
\* artifacts or with the last run
FailedRunsSkippedSweepContinues ==
  (pc \in {"Sweep", "Fetched", "FetchFailed"}) =>
    /\ pc # "FetchFailed"
    /\ artifact_count <= max_runs
    /\ temp_dir = {i \in 1..runs_processed : workflow_runs[i] \in {"ok", "bad_summary"}}
    /\ artifact_count = Cardinality(temp_dir)
    /\ pc = "Fetched" => (artifact_count = max_runs \/ runs_processed = Len(workflow_runs))

\* an expired and another failed run were passed and a later run downloaded
SweepPassedFailedRuns ==
  /\ pc = "Fetched"
  /\ \E i, j, k \in 1..runs_processed :
       /\ i < k /\ j < k
       /\ workflow_runs[i] = "expired"
       /\ workflow_runs[j] \in {"http_error", "bad_zip", "list_fails"}
       /\ k \in temp_dir

\* C23: results.csv has one row per record, in their order, with the id,
\* metric, score and explanation of the record and with the fields and the
\* answer of the sample that has the id
CsvRowPerRecordWithItsFields ==
  (pc = "Written") =>
    /\ Len(results_csv) = Len(records)
    /\ \A i \in 1..Len(records) :
         /\ results_csv[i].id = records[i].id
         /\ results_csv[i].metric = records[i].metric
         /\ results_csv[i].score = records[i].score
         /\ "explanation" \in DOMAIN records[i].ai_evaluation_explanation
              => results_csv[i].explanation = records[i].ai_evaluation_explanation.explanation
         /\ \E k \in 1..Len(samples) :
              /\ samples[k].sample_id = records[i].id
              /\ results_csv[i].sample_idx = k
              /\ results_csv[i].ai_answer = model_outputs[k].answer

\* C28: a generate call whose response has a statusCode other than 200
\* raises, under either backend
NonOkStatusRaisesInBothBackends ==
  \A i \in 1..Len(client_calls) :
    (/\ client_calls[i].resp.t = "dict"
     /\ HasKey(client_calls[i].resp, K_statusCode)
     /\ Get(client_calls[i].resp, K_statusCode, JNull) # JNum(200))
      => client_calls[i].out.exc # ""

\* run_evaluation at its call of generate_batch in a first run without
\* persistence: the state BuildClient leaves, every sample missing
BatchInit ==
  /\ pc = "Generate"
  /\ runs = 1
  /\ rerun = FALSE
  /\ prev = NoPrev
  /\ file = NoFile
  /\ file0 = NoFile
  /\ columns = "ok"
  /\ \E ids \in IdSeqs \ {<<>>} :
       /\ samples = ExtractEvalSamples("ok", ids).samples
       /\ genCalls = [i \in 1..Len(ids) |-> 0]
       /\ tasks = [i \in 1..Len(ids) |-> "pending"]
       /\ taskResult = [i \in 1..Len(ids) |-> NoOutput]
  /\ missing_samples = samples
  /\ persist_rag_outputs = FALSE
  /\ persisted_results = NoResults
  /\ loaded = NoLoaded
  /\ rag_app \in {"local", "lambda"}
  /\ client_built = TRUE
  /\ max_concurrency \in 0..MaxConcurrency
  /\ sem = max_concurrency
  /\ doneOrder = <<>>
  /\ gatherExc = FALSE
  /\ new_model_outputs = <<>>
  /\ model_outputs = <<>>
  /\ metrics = <<>>
  /\ per_sample_results = <<>>
  /\ judgeCalled = FALSE
  /\ summary = NoSummary
  /\ written = {}
  /\ uploaded = FALSE
  /\ error = ""
  /\ JudgeIdle
  /\ StatsIdle
  /\ AggIdle
  /\ ToolIdle

\* generate_batch and the await of it in run_evaluation
BatchNext ==
  \/ \E i \in 1..Len(tasks) : Acquire(i)
  \/ \E i \in 1..Len(tasks) : Finish(i)
  \/ \E i \in 1..Len(tasks) : Raise(i)
  \/ AbortRun
  \/ GatherReturn

\* the event loop runs a task that can take a permit, every generate call
\* returns or raises, and the await of gather returns or raises when it can
SpecLive ==
  /\ BatchInit
  /\ [][BatchNext]_vars
  /\ WF_vars(\E i \in 1..Len(tasks) : Acquire(i))
  /\ WF_vars(\E i \in 1..Len(tasks) : Finish(i) \/ Raise(i))
  /\ WF_vars(GatherReturn)
  /\ WF_vars(AbortRun)

\* C29: while generate_batch runs, the permits not held by a running call
\* are in the semaphore, and with max_concurrency >= 1 generate_batch ends
\* with no call in flight
BatchTerminatesPermitsReleased ==
  /\ [](pc = "Generate" => sem + Cardinality(InFlight) = max_concurrency)
  /\ (pc = "Generate" /\ max_concurrency >= 1) ~> (pc # "Generate" /\ InFlight = {})

\* with one permit, a call runs after the call before it raised
PermitReusedAfterRaise ==
  /\ pc = "Generate"
  /\ max_concurrency = 1
  /\ \E i, j \in 1..Len(tasks) : tasks[i] = "raised" /\ tasks[j] = "running"

\* the sample ids of the rows of the cache file, read as they were written
CacheKeys(f) ==
  LET r == CsvReader(f.text)
  IN {DictGet(r.rows[1], r.rows[i], F_sample_id).val : i \in 2..Len(r.rows)}

\* C30: after save_rag_results in a run with persistence that generated an
\* output, the sample ids in the cache file are those of the samples of
\* the run
CacheHoldsCurrentSamplesOnly ==
  (pc = "BuildOutputs" /\ persist_rag_outputs /\ missing_samples # <<>>) =>
    /\ file.exists
    /\ CacheKeys(file) = {samples[i].sample_id : i \in 1..Len(samples)}

\* the file had an entry for an id that no sample of the run has
EarlierEntryOutsideSamples ==
  /\ pc = "BuildOutputs"
  /\ persist_rag_outputs
  /\ missing_samples # <<>>
  /\ file0.exists
  /\ \E id \in CacheKeys(file0) : \A i \in 1..Len(samples) : samples[i].sample_id # id

====
